---- MODULE Spec2Model ----
(***************************************************************************)
(* Model of channel/wx849/wx849_channel.py: the inbound message normalizer *)
(* (WX849Channel._process_message and the per-type handlers it calls) and  *)
(* the _check wrapper that guards handle_single / handle_group.            *)
(*                                                                         *)
(* Text.  A Python str is a sequence of tokens.  A token is either one     *)
(* character class ("a" an ordinary character, ":" the colon, "NL" the     *)
(* newline, "<" a bare less-than sign, "," a comma), a fixed substring     *)
(* ("@Bot" is "@" followed by the bot's name), an identifier that the code *)
(* only copies and compares, or a whole XML document (Docs) whose parse    *)
(* result is given by the table Doc.  The empty str is <<>>.               *)
(***************************************************************************)
EXTENDS Integers, Sequences, FiniteSets, TLC

VARIABLES
    cmsg,          \* the message object being handled
    delivered,     \* the message object as it was handed to the handler
    pc,            \* position of the handler
    now,           \* int(time.time())
    received_msgs, \* WX849Channel.received_msgs (keys)
    assigned,      \* <<raw event, id>> for every id _check computed
    rooms_file,    \* contents of tmp/wx849_rooms.json
    config,        \* conf()
    produced,      \* the contexts handed to self.produce, in order
    handled,       \* number of messages the listener has handed over
    chan,          \* the channel object: wxid, user_id, is_logged_in, is_running
    task,          \* startup_task: its position and the locals of the
                   \* coroutines it runs (_initialize_bot, _message_listener)
    sending,       \* the reply and the context send was called with
    backend,       \* the calls send has made to the backend, in order
    threads        \* the threads _compose_context started for group names,
                   \* each with the locals of the coroutines it runs

vars == <<cmsg, delivered, pc, now, received_msgs, assigned, rooms_file,
          config, produced, handled, chan, task, sending, backend, threads>>

\* the variables of startup and of send
startVars == <<chan, task>>
sendVars == <<sending, backend>>

----------------------------------------------------------------------------
(* Bounds *)

MaxContentLen == 4   \* characters in front of the payload of a content
MaxTicks == 1        \* seconds that pass while the channel runs
MaxDeliveries == 2   \* messages the listener hands to the handlers

----------------------------------------------------------------------------
(* str operations *)

None == <<"None">>          \* Python None where a str may also occur

Min(S) == CHOOSE x \in S : \A y \in S : x <= y

\* F applied to the value of e (e is evaluated once)
Let(e, F(_)) == CHOOSE r \in {F(v) : v \in {e}} : TRUE

\* s.find(d) + 1: position of the first occurrence of d in s, 0 if none
FindStr(s, d) ==
    LET I == {i \in 1..(Len(s) - Len(d) + 1) : SubSeq(s, i, i + Len(d) - 1) = d}
    IN IF I = {} THEN 0 ELSE Min(I)

\* s.split(d, 1)
Split1(s, d) ==
    LET i == FindStr(s, d)
    IN IF i = 0 THEN <<s>>
       ELSE <<SubSeq(s, 1, i - 1), SubSeq(s, i + Len(d), Len(s))>>

\* d in s
Contains(s, d) == FindStr(s, d) > 0

AppDocs == {"DocLink", "DocFile", "DocMiniapp", "DocTransfer", "DocQuote",
            "DocQuoteBad"}

Docs == {"DocAttr", "DocElem", "DocPat", "DocBad", "DocPatRoot", "DocPatEmpty"}
            \cup AppDocs

\* text of the token begins with "<"
BeginsLt(t) == t = "<" \/ t \in Docs

\* s.startswith("<")
StartsWithLt(s) == Len(s) > 0 /\ BeginsLt(s[1])

\* "<" in s
ContainsLt(s) == \E i \in 1..Len(s) : BeginsLt(s[i])

\* s.strip(): leading and trailing whitespace removed
RECURSIVE Strip(_)
Strip(s) ==
    IF Len(s) = 0 THEN s
    ELSE IF s[1] = "NL" THEN Strip(Tail(s))
    ELSE IF s[Len(s)] = "NL" THEN Strip(SubSeq(s, 1, Len(s) - 1))
    ELSE s

\* s.endswith("@chatroom")
EndsWithChatroom(s) == Len(s) > 0 /\ s[Len(s)] = "g@chatroom"

----------------------------------------------------------------------------
(* XML documents that occur in contents.  Doc(d) is what the code can learn *)
(* from document d through re.search and xml.etree.ElementTree:             *)
(*   DocAttr  <msg><img fromusername="u3" .../><voicemsg fromusername="u3" *)
(*            .../><videomsg .../><emoji .../></msg>                        *)
(*   DocElem  <msg><fromusername>u4</fromusername></msg>                    *)
(*   DocPat   <sysmsg type="pat"><pat><fromusername>u6</fromusername>       *)
(*            <pattedusername>u7</pattedusername></pat></sysmsg>            *)
(*   DocBad   <msg><img  (truncated, not well-formed)                       *)
(*   DocPatRoot   <pat><fromusername>u6</fromusername>                      *)
(*                <pattedusername>u7</pattedusername></pat>                 *)
(*   DocPatEmpty  <sysmsg type="pat"><pat><fromusername>u6</fromusername>   *)
(*                <pattedusername>u7</pattedusername><patsuffix/></pat>     *)
(*                </sysmsg>                                                 *)
(*   DocLink, DocFile, DocMiniapp, DocTransfer                              *)
(*                <msg><appmsg><title>t</title><type>N</type>...</appmsg>   *)
(*                </msg> with N = 5, 6, 33, 2000                            *)
(*   DocQuote     <msg><appmsg><type>57</type><refermsg><content>q         *)
(*                </content></refermsg></appmsg></msg>                      *)
(*   DocQuoteBad  as DocQuote, the quoted content being XML that is not     *)
(*                well-formed                                               *)
(* appType is the text of appmsg/type, refermsg tells whether the quoted    *)
(* content parses; pat tells where the pat element is.                      *)
(***************************************************************************)

Absent == <<"Absent">>      \* the element does not exist

Doc(d) ==
    CASE d = "DocAttr" ->
           [wellformed |-> TRUE, startsMsg |-> TRUE, root |-> "msg",
            attrFrom |-> <<"u3">>, elemFrom |-> <<>>,
            username |-> <<>>, fromusername |-> <<>>,
            children |-> {"img", "voicemsg", "videomsg", "emoji"},
            containsPat |-> FALSE, pat |-> "none",
            patFrom |-> Absent, patPatted |-> Absent, patSuffix |-> Absent,
            appType |-> "none", refermsg |-> "none"]
      [] d = "DocElem" ->
           [wellformed |-> TRUE, startsMsg |-> TRUE, root |-> "msg",
            attrFrom |-> <<>>, elemFrom |-> <<"u4">>,
            username |-> <<>>, fromusername |-> <<"u4">>,
            children |-> {"fromusername"},
            containsPat |-> FALSE, pat |-> "none",
            patFrom |-> Absent, patPatted |-> Absent, patSuffix |-> Absent,
            appType |-> "none", refermsg |-> "none"]
      [] d = "DocPat" ->
           [wellformed |-> TRUE, startsMsg |-> FALSE, root |-> "sysmsg",
            attrFrom |-> <<>>, elemFrom |-> <<"u6">>,
            username |-> <<>>, fromusername |-> <<"u6">>,
            children |-> {"pat"},
            containsPat |-> TRUE, pat |-> "child",
            patFrom |-> <<"u6">>, patPatted |-> <<"u7">>, patSuffix |-> Absent,
            appType |-> "none", refermsg |-> "none"]
      [] d = "DocPatRoot" ->
           [wellformed |-> TRUE, startsMsg |-> FALSE, root |-> "pat",
            attrFrom |-> <<>>, elemFrom |-> <<"u6">>,
            username |-> <<>>, fromusername |-> <<"u6">>,
            children |-> {"fromusername", "pattedusername"},
            containsPat |-> TRUE, pat |-> "root",
            patFrom |-> <<"u6">>, patPatted |-> <<"u7">>, patSuffix |-> Absent,
            appType |-> "none", refermsg |-> "none"]
      [] d = "DocPatEmpty" ->
           [wellformed |-> TRUE, startsMsg |-> FALSE, root |-> "sysmsg",
            attrFrom |-> <<>>, elemFrom |-> <<"u6">>,
            username |-> <<>>, fromusername |-> <<"u6">>,
            children |-> {"pat"},
            containsPat |-> TRUE, pat |-> "child",
            patFrom |-> <<"u6">>, patPatted |-> <<"u7">>, patSuffix |-> None,
            appType |-> "none", refermsg |-> "none"]
      [] d \in AppDocs ->
           [wellformed |-> TRUE, startsMsg |-> TRUE, root |-> "msg",
            attrFrom |-> <<>>, elemFrom |-> <<>>,
            username |-> <<>>, fromusername |-> <<>>,
            children |-> {"appmsg"},
            containsPat |-> FALSE, pat |-> "none",
            patFrom |-> Absent, patPatted |-> Absent, patSuffix |-> Absent,
            appType |-> CASE d = "DocLink" -> "5"
                          [] d = "DocFile" -> "6"
                          [] d = "DocMiniapp" -> "33"
                          [] d = "DocTransfer" -> "2000"
                          [] OTHER -> "57",
            refermsg |-> CASE d = "DocQuote" -> "ok"
                           [] d = "DocQuoteBad" -> "bad"
                           [] OTHER -> "none"]
      [] OTHER ->
           [wellformed |-> FALSE, startsMsg |-> TRUE, root |-> "",
            attrFrom |-> <<>>, elemFrom |-> <<>>,
            username |-> <<>>, fromusername |-> <<>>,
            children |-> {},
            containsPat |-> FALSE, pat |-> "none",
            patFrom |-> Absent, patPatted |-> Absent, patSuffix |-> Absent,
            appType |-> "none", refermsg |-> "none"]

ParseError == "ParseError"

\* ET.fromstring(s): the document, or ParseError when s is not exactly one
\* well-formed document (surrounding whitespace is accepted)
FromString(s) ==
    LET t == Strip(s)
    IN IF Len(t) = 1 /\ t[1] \in Docs /\ Doc(t[1]).wellformed THEN t[1]
       ELSE ParseError

\* original_content.strip().startswith("<?xml") or ....startswith("<msg")
IsXmlContent(s) ==
    LET t == Strip(s)
    IN Len(t) > 0 /\ t[1] \in Docs /\ Doc(t[1]).startsMsg

\* re.search(r'fromusername\s*=\s*["\'](.*?)["\']', s): group(1) of the first
\* match, <<>> when there is no match
SearchAttrFrom(s) ==
    LET I == {i \in 1..Len(s) : s[i] \in Docs /\ Doc(s[i]).attrFrom # <<>>}
    IN IF I = {} THEN <<>> ELSE Doc(s[Min(I)]).attrFrom

\* re.search(r'<fromusername>(.*?)</fromusername>', s)
SearchElemFrom(s) ==
    LET I == {i \in 1..Len(s) : s[i] \in Docs /\ Doc(s[i]).elemFrom # <<>>}
    IN IF I = {} THEN <<>> ELSE Doc(s[Min(I)]).elemFrom

\* "<pat" in s
ContainsPat(s) == \E i \in 1..Len(s) : s[i] \in Docs /\ Doc(s[i]).containsPat

----------------------------------------------------------------------------
(* MsgSource values.  Source(m) is what ElementTree finds in the MsgSource  *)
(* string m after the code wrapped it in <msgsource> when needed:           *)
(*   SrcAt     <msgsource><atuserlist>bot_wxid</atuserlist></msgsource>     *)
(*   SrcComma  <msgsource><atuserlist>,</atuserlist></msgsource>            *)
(*   SrcUser   <msgsource><username>u9</username></msgsource>               *)
(*   SrcBad    <msgsource><atuserlist>  (truncated)                         *)
(* NoSrc is the empty string / missing key.  sender is the text of the      *)
(* first of username, nickname, alias, fromusername that has text; display  *)
(* the text of the first of selfDisplayName, displayname, nickname.         *)
(***************************************************************************)

Sources == {"NoSrc", "SrcAt", "SrcComma", "SrcUser", "SrcBad"}

Source(m) ==
    CASE m = "SrcAt" ->
           [wellformed |-> TRUE, sender |-> <<>>, display |-> <<>>,
            atuserlist |-> <<"bot_wxid">>]
      [] m = "SrcComma" ->
           [wellformed |-> TRUE, sender |-> <<>>, display |-> <<>>,
            atuserlist |-> <<",">>]
      [] m = "SrcUser" ->
           [wellformed |-> TRUE, sender |-> <<"u9">>, display |-> <<>>,
            atuserlist |-> <<>>]
      [] OTHER ->
           [wellformed |-> FALSE, sender |-> <<>>, display |-> <<>>,
            atuserlist |-> <<>>]

\* s.strip(",")
RECURSIVE StripCommas(_)
StripCommas(s) ==
    IF Len(s) = 0 THEN s
    ELSE IF s[1] = "," THEN StripCommas(Tail(s))
    ELSE IF s[Len(s)] = "," THEN StripCommas(SubSeq(s, 1, Len(s) - 1))
    ELSE s

\* s.split(",")
RECURSIVE SplitCommas(_)
SplitCommas(s) ==
    LET i == FindStr(s, <<",">>)
    IN IF i = 0 THEN <<s>>
       ELSE <<SubSeq(s, 1, i - 1)>> \o SplitCommas(SubSeq(s, i + 1, Len(s)))

\* [x for x in l if x]
RECURSIVE Truthy(_)
Truthy(l) ==
    IF Len(l) = 0 THEN <<>>
    ELSE IF Head(l) = <<>> THEN Truthy(Tail(l))
    ELSE <<Head(l)>> \o Truthy(Tail(l))

\* [x for x in s.strip(",").split(",") if x]
ParseAtString(s) == Truthy(SplitCommas(StripCommas(s)))

----------------------------------------------------------------------------
(* The channel object after login *)

BotWxid == <<"bot_wxid">>     \* self.wxid
BotName == <<"Bot">>          \* self.name

\* f"@{name}" in s
ContainsAtName(s, name) ==
    name = BotName /\ \E i \in 1..Len(s) : s[i] = "@Bot"

\* "@" in s
ContainsAt(s) == \E i \in 1..Len(s) : s[i] = "@Bot"

UnknownUser(c) == <<"unknown_user_">> \o c.from_user_id  \* f"未知用户_{from_user_id}"
UnknownSender == <<"unknown_sender">>                     \* "未知发送者"
SystemSender == <<"system_message">>                      \* "系统消息"

IsGroupMsg(c) == c.is_group \/ EndsWithChatroom(c.from_user_id)

SenderKeys == <<"SenderUserName", "sender", "senderId", "fromUser">>
AtKeys == <<"AtUserList", "at_list", "atlist">>

\* for key in SenderKeys: if key in msg and msg[key]: return str(msg[key])
SenderField(msg) ==
    LET I == {i \in 1..Len(SenderKeys) : msg[SenderKeys[i]] # <<>>}
    IN IF I = {} THEN <<>> ELSE msg[SenderKeys[Min(I)]]

\* the value of one raw mention field when only comma-joined strings are read
AtValueStrOnly(v, old) ==
    CASE v.kind = "str" -> ParseAtString(v.val)
      [] OTHER -> old

\* the value one raw mention field yields
AtValue(v, old) ==
    CASE v.kind = "list" -> Truthy(v.val)
      [] v.kind = "str" -> ParseAtString(v.val)
      [] OTHER -> old

\* for key in AtKeys: if key in msg: ...; if cmsg.at_list: break
RECURSIVE AtFields(_, _, _)
AtFields(msg, i, old) ==
    IF i > Len(AtKeys) THEN old
    ELSE LET v == msg[AtKeys[i]]
             new == IF v.kind = "absent" THEN old ELSE AtValue(v, old)
         IN IF v.kind # "absent" /\ new # <<>> THEN new
            ELSE AtFields(msg, i + 1, new)

\* lines 1147-1149
NormalizeAtList(l) ==
    IF l = <<>> \/ (Len(l) = 1 /\ l[1] = <<>>) THEN <<>> ELSE l

\* the mention steps when the content step does not test for a list found
\* before
TextMentionsAppend(c0) ==
    Let(c0, LAMBDA c :
    Let(Source(c.msg.MsgSource), LAMBDA src :
    Let(IF c.msg.MsgSource # "NoSrc" /\ src.wellformed /\ src.atuserlist # <<>>
        THEN ParseAtString(src.atuserlist)
        ELSE c.at_list, LAMBDA a1 :
    Let(IF a1 = <<>> THEN AtFields(c.msg, 1, a1) ELSE a1, LAMBDA a2 :
    Let(IF c.is_group /\ ContainsAt(c.content)
           /\ (ContainsAtName(c.content, BotName)
               \/ ContainsAtName(c.content, c.self_display_name))
        THEN a2 \o <<BotWxid>>
        ELSE a2, LAMBDA a3 :
        [c EXCEPT !.at_list = NormalizeAtList(a3)])))))

\* lines 1102-1149 of _process_text_message
TextMentions(c0) ==
    Let(c0, LAMBDA c :
    Let(Source(c.msg.MsgSource), LAMBDA src :
    Let(IF c.msg.MsgSource # "NoSrc" /\ src.wellformed /\ src.atuserlist # <<>>
        THEN ParseAtString(src.atuserlist)
        ELSE c.at_list, LAMBDA a1 :
    Let(IF a1 = <<>> THEN AtFields(c.msg, 1, a1) ELSE a1, LAMBDA a2 :
    Let(IF c.is_group /\ a2 = <<>> /\ ContainsAt(c.content)
           /\ (ContainsAtName(c.content, BotName)
               \/ ContainsAtName(c.content, c.self_display_name))
        THEN <<BotWxid>>
        ELSE a2, LAMBDA a3 :
        [c EXCEPT !.at_list = NormalizeAtList(a3)])))))

\* the outcome of an attempt to find the sender (sender_extracted, the
\* sender, the content that remains)
Found(sender, body) == [ok |-> TRUE, sender |-> sender, body |-> body]
NotFound(body) == [ok |-> FALSE, sender |-> <<>>, body |-> body]

\* parts = s.split(d, 1)
\* if len(parts) > 1 and parts[0] and not parts[0].startswith("<"): ...
SplitSender(s, d) ==
    Let(Split1(s, d), LAMBDA parts :
        IF Len(parts) > 1 /\ parts[1] # <<>> /\ ~StartsWithLt(parts[1])
        THEN Found(parts[1], parts[2])
        ELSE NotFound(s))

\* method 1 (split at ":\n"), then method 2 (split at ":")
ContentSender(s) ==
    Let(SplitSender(s, <<":", "NL">>), LAMBDA r :
        IF r.ok THEN r ELSE SplitSender(s, <<":">>))

\* split at ":\n", else at ":", with no check of the parts
\* (len(parts) > 1 only); one part when neither separator occurs
UncheckedSplit(s) ==
    Let(Split1(s, <<":", "NL">>), LAMBDA parts :
        IF Len(parts) > 1 THEN parts ELSE Split1(s, <<":">>))

\* cmsg.sender_wxid = cmsg.from_user_id ... of a direct message
DirectSender(c) ==
    [c EXCEPT !.sender_wxid = c.from_user_id,
              !.is_group = FALSE,
              !.actual_user_id = c.from_user_id,
              !.actual_user_nickname = c.from_user_id]

\* lines 1016-1100 of _process_text_message
TextSender(c0) ==
    Let(c0, LAMBDA c :
        IF ~IsGroupMsg(c) THEN DirectSender(c) ELSE
        Let(ContentSender(c.content), LAMBDA r :
        Let(Source(c.msg.MsgSource), LAMBDA src :
        Let(~r.ok /\ c.msg.MsgSource # "NoSrc" /\ src.wellformed, LAMBDA try3 :
        Let(SenderField(c.msg), LAMBDA field :
        Let(IF r.ok THEN r.sender
            ELSE IF try3 /\ src.sender # <<>> THEN src.sender
            ELSE IF field # <<>> THEN field
            ELSE UnknownUser(c), LAMBDA sender :
            [c EXCEPT !.is_group = TRUE,
                      !.content = r.body,
                      !.self_display_name =
                          IF try3 /\ src.display # <<>> THEN src.display ELSE @,
                      !.sender_wxid = sender,
                      !.other_user_id = c.from_user_id,
                      !.actual_user_id = sender,
                      !.actual_user_nickname = sender]))))))

_process_text_message(c) == TextMentions(TextSender([c EXCEPT !.ctype = "TEXT"]))

\* lines 1160-1187: the sender of an image message
ImageSender(c0) ==
    Let(c0, LAMBDA c :
        IF ~IsGroupMsg(c) THEN DirectSender(c) ELSE
        Let(UncheckedSplit(c.content), LAMBDA parts :
        Let(IF Len(parts) > 1 THEN parts ELSE <<(<<>>), c.content>>, LAMBDA sp :
            [c EXCEPT !.is_group = TRUE,
                      !.sender_wxid = sp[1],
                      !.content = sp[2],
                      !.actual_user_id = sp[1],
                      !.actual_user_nickname = sp[1]])))

\* the sub-payload step without the assignment of its except branch
MediaInfoKeep(s, tag, old) ==
    Let(FromString(s), LAMBDA d :
        IF d = ParseError THEN old
        ELSE IF tag \in Doc(d).children THEN d
        ELSE old)

\* try: root = ET.fromstring(s); e = root.find(tag); if e is not None: info = {..}
\* except: info = {}
MediaInfo(s, tag, old) ==
    Let(FromString(s), LAMBDA d :
        IF d = ParseError THEN "EMPTY"
        ELSE IF tag \in Doc(d).children THEN d
        ELSE old)

_process_image_message(c) ==
    Let(ImageSender([c EXCEPT !.ctype = "IMAGE"]), LAMBDA c1 :
        [c1 EXCEPT !.image_info = MediaInfo(c1.content, "img", @)])

\* root.find(tag).attrib['fromusername'] of the parsed content, <<>> if the
\* content does not parse or the element or the attribute is missing
ChildAttrFrom(s, tag) ==
    Let(FromString(s), LAMBDA d :
        IF d # ParseError /\ tag \in Doc(d).children THEN Doc(d).attrFrom
        ELSE <<>>)

\* the first of the values a, b that is not empty
FirstOf(a, b) == Let(a, LAMBDA v : IF v # <<>> THEN v ELSE b)

\* lines 1221-1250 (voice), 1314-1343 (video): sender from the XML content
XmlSender(c, tag, withElem) ==
    IF ~IsXmlContent(c.content) THEN c.sender_wxid
    ELSE FirstOf(SearchAttrFrom(c.content),
         FirstOf(IF withElem THEN SearchElemFrom(c.content) ELSE <<>>,
         FirstOf(ChildAttrFrom(c.content, tag),
                 c.sender_wxid)))

\* lines 1252-1273, 1289-1296 (voice); the same code in video and emoji
MediaSender(c0, tag, withElem) ==
    Let(c0, LAMBDA c :
    Let(XmlSender(c, tag, withElem), LAMBDA s1 :
    Let(s1 = <<>> /\ IsGroupMsg(c), LAMBDA split :
    Let(IF split THEN UncheckedSplit(c.content) ELSE <<s1>>, LAMBDA parts :
    Let(IF Len(parts) > 1 THEN parts[1] ELSE s1, LAMBDA s2 :
    Let(IF s2 = <<>> /\ ~(split \/ c.is_group) THEN c.from_user_id ELSE s2,
        LAMBDA s3 :
    Let(IF s3 = <<>> \/ ContainsLt(s3) THEN UnknownSender
        ELSE IF s3 # <<>> THEN s3 ELSE c.from_user_id, LAMBDA actual :
        [c EXCEPT !.is_group = split \/ c.is_group,
                  !.sender_wxid =
                      IF s3 = <<>> \/ ContainsLt(s3) THEN UnknownSender ELSE s3,
                  !.actual_user_id = actual,
                  !.actual_user_nickname = actual])))))))

_process_voice_message(c) ==
    Let(MediaSender([c EXCEPT !.ctype = "VOICE"], "voicemsg", TRUE), LAMBDA c1 :
        [c1 EXCEPT !.voice_info = MediaInfo(c.content, "voicemsg", @)])

_process_video_message(c) ==
    MediaSender([c EXCEPT !.ctype = "VIDEO"], "videomsg", TRUE)

\* the emoji handler with a type of its own instead of TEXT
EmojiAsEmoji(c) ==
    MediaSender([c EXCEPT !.ctype = "EMOJI"], "emoji", FALSE)

_process_emoji_message(c) ==
    MediaSender([c EXCEPT !.ctype = "TEXT"], "emoji", FALSE)

\* parts = s.split(d, 1)
\* if len(parts) > 1 and not parts[0].startswith("<"): sender = parts[0]
XmlSplitSender(s, d) ==
    Let(Split1(s, d), LAMBDA parts :
        IF Len(parts) > 1 /\ ~StartsWithLt(parts[1]) THEN parts[1] ELSE <<>>)

\* the app-XML handler when it falls back to the text type (lines 1466-1471)
XmlFallbackText(c0) ==
    Let(c0, LAMBDA c :
        IF ~IsGroupMsg(c) THEN DirectSender([c EXCEPT !.ctype = "TEXT"]) ELSE
        Let(IF ~IsXmlContent(c.content) THEN <<>>
            ELSE FirstOf(SearchAttrFrom(c.content), SearchElemFrom(c.content)),
            LAMBDA s1 :
        Let(IF s1 # <<>> THEN s1
            ELSE Let(Split1(c.content, <<":", "NL">>), LAMBDA p1 :
                     IF Len(p1) > 1 /\ ~StartsWithLt(p1[1]) THEN p1[1]
                     ELSE XmlSplitSender(c.content, <<":">>)), LAMBDA s2 :
        Let(IF s2 = <<>> THEN UnknownUser(c) ELSE s2, LAMBDA s3 :
            [c EXCEPT !.ctype = "TEXT",
                      !.is_group = TRUE,
                      !.sender_wxid = s3,
                      !.actual_user_id = s3,
                      !.actual_user_nickname = s3]))))

\* lines 1452-1537
_process_xml_message(c0) ==
    Let(c0, LAMBDA c :
        IF ~IsGroupMsg(c) THEN DirectSender([c EXCEPT !.ctype = "XML"]) ELSE
        Let(IF ~IsXmlContent(c.content) THEN <<>>
            ELSE FirstOf(SearchAttrFrom(c.content), SearchElemFrom(c.content)),
            LAMBDA s1 :
        Let(IF s1 # <<>> THEN s1
            ELSE Let(Split1(c.content, <<":", "NL">>), LAMBDA p1 :
                     IF Len(p1) > 1 /\ ~StartsWithLt(p1[1]) THEN p1[1]
                     ELSE XmlSplitSender(c.content, <<":">>)), LAMBDA s2 :
        Let(IF s2 = <<>> THEN UnknownUser(c) ELSE s2, LAMBDA s3 :
            [c EXCEPT !.ctype = "XML",
                      !.is_group = TRUE,
                      !.sender_wxid = s3,
                      !.actual_user_id = s3,
                      !.actual_user_nickname = s3]))))

\* x.text if x is not None else ""
PatText(v) == IF v = Absent THEN <<>> ELSE v

\* lines 1539-1578
_process_system_message(c0) ==
    Let(c0, LAMBDA c :
    Let(FromString(c.content), LAMBDA d :
        IF ContainsPat(c.content) /\ d # ParseError /\ "pat" \in Doc(d).children
        THEN Let(Doc(d), LAMBDA pat :
                 [c EXCEPT !.ctype = "PAT",
                           !.pat_info = [patter |-> PatText(pat.patFrom),
                                         patted |-> PatText(pat.patPatted),
                                         suffix |-> PatText(pat.patSuffix)],
                           !.sender_wxid = PatText(pat.patFrom),
                           !.actual_user_id = PatText(pat.patFrom),
                           !.actual_user_nickname = PatText(pat.patFrom)])
        ELSE [c EXCEPT !.ctype = "SYSTEM",
                       !.sender_wxid = SystemSender,
                       !.actual_user_id = SystemSender,
                       !.actual_user_nickname = SystemSender]))

----------------------------------------------------------------------------
(* _process_message *)

\* the text list without its alias
TextTagsNoAlias == {"i1", "s1"}

TextTags   == {"i1", "s1", "Text"}
ImageTags  == {"i3", "s3", "Image"}
VoiceTags  == {"i34", "s34", "Voice"}
VideoTags  == {"i43", "s43", "Video"}
EmojiTags  == {"i47", "s47", "Emoji"}
AppTags    == {"i49", "s49", "App"}
SystemTags == {"i10000", "s10000", "System"}

\* not msg_type: the int 0, the empty str, None
Falsy(t) == t \in {"i0", "s", "None"}

\* lines 851-853
EffectiveType(c) ==
    IF Falsy(c.msg_type) /\ c.msg.Type # "absent" THEN c.msg.Type ELSE c.msg_type

\* lines 855-892: the bot's display name in the group
SelfDisplayName(c, rooms) ==
    IF c.is_group /\ c.self_display_name = <<>> THEN
        Let({e \in rooms : e.id = c.from_user_id /\ e.botDisplay # <<>>}, LAMBDA E :
            IF E = {} THEN BotName ELSE (CHOOSE e \in E : TRUE).botDisplay)
    ELSE c.self_display_name

\* the dispatch without its final else branch
ClassifyNoDefault(c0) ==
    Let(c0, LAMBDA c :
    Let(EffectiveType(c), LAMBDA t :
        CASE t \in TextTags   -> _process_text_message(c)
          [] t \in ImageTags  -> _process_image_message(c)
          [] t \in VoiceTags  -> _process_voice_message(c)
          [] t \in VideoTags  -> _process_video_message(c)
          [] t \in EmojiTags  -> _process_emoji_message(c)
          [] t \in AppTags    -> _process_xml_message(c)
          [] t \in SystemTags -> _process_system_message(c)
          [] OTHER            -> c))

\* lines 894-912
Classify(c0) ==
    Let(c0, LAMBDA c :
    Let(EffectiveType(c), LAMBDA t :
        CASE t \in TextTags   -> _process_text_message(c)
          [] t \in ImageTags  -> _process_image_message(c)
          [] t \in VoiceTags  -> _process_voice_message(c)
          [] t \in VideoTags  -> _process_video_message(c)
          [] t \in EmojiTags  -> _process_emoji_message(c)
          [] t \in AppTags    -> _process_xml_message(c)
          [] t \in SystemTags -> _process_system_message(c)
          [] OTHER            -> [c EXCEPT !.ctype = "UNKNOWN"]))

\* root.find(".//username"), then fromusername, sender, from, when root.tag
\* is "msg" (lines 941-960)
XmlContentSender(s) ==
    Let(FromString(s), LAMBDA d :
        IF d = ParseError \/ Doc(d).root # "msg" THEN <<>>
        ELSE FirstOf(Doc(d).username, Doc(d).fromusername))

\* the sender pass without its branch for direct messages
FinalSenderNoDirect(c0) ==
    Let(c0, LAMBDA c :
        IF ~IsGroupMsg(c) THEN c ELSE
        Let(ContentSender(c.content), LAMBDA r :
        Let(IF ~r.ok /\ StartsWithLt(c.content)
            THEN XmlContentSender(c.content) ELSE <<>>, LAMBDA xml :
        Let(SenderField(c.msg), LAMBDA field :
        Let(IF r.ok THEN r.sender
            ELSE IF xml # <<>> THEN xml
            ELSE IF field # <<>> THEN field
            ELSE UnknownUser(c), LAMBDA sender :
            [c EXCEPT !.content = r.body,
                      !.sender_wxid = sender,
                      !.other_user_id = c.from_user_id,
                      !.actual_user_id = sender,
                      !.actual_user_nickname = sender])))))

\* lines 914-1000: the sender pass that follows every handler
FinalSender(c0) ==
    Let(c0, LAMBDA c :
        IF ~IsGroupMsg(c) THEN DirectSender(c) ELSE
        Let(ContentSender(c.content), LAMBDA r :
        Let(IF ~r.ok /\ StartsWithLt(c.content)
            THEN XmlContentSender(c.content) ELSE <<>>, LAMBDA xml :
        Let(SenderField(c.msg), LAMBDA field :
        Let(IF r.ok THEN r.sender
            ELSE IF xml # <<>> THEN xml
            ELSE IF field # <<>> THEN field
            ELSE UnknownUser(c), LAMBDA sender :
            [c EXCEPT !.content = r.body,
                      !.sender_wxid = sender,
                      !.other_user_id = c.from_user_id,
                      !.actual_user_id = sender,
                      !.actual_user_nickname = sender])))))

\* lines 848-1000
_process_message(c, rooms) ==
    FinalSender(Classify([c EXCEPT !.self_display_name = SelfDisplayName(c, rooms)]))

----------------------------------------------------------------------------
(* Message objects handed to the handlers *)

NoField == [kind |-> "absent", val |-> <<>>]

NoPatInfo == [patter |-> Absent, patted |-> Absent, suffix |-> Absent]

\* the raw mapping cmsg.msg, as far as the channel reads it
RawMsg(type, src, senderField, atField) ==
    [Type |-> type, MsgSource |-> src,
     SenderUserName |-> senderField, sender |-> <<>>, senderId |-> <<>>,
     fromUser |-> <<>>,
     AtUserList |-> atField, at_list |-> NoField, atlist |-> NoField]

\* WX849Message(msg, is_group): the object the listener builds from a raw event
NewMessage(msg, id, time, tag, content, from, group, ats) ==
    [msg |-> msg, msg_id |-> id, create_time |-> time, msg_type |-> tag,
     content |-> content, from_user_id |-> from, is_group |-> group,
     ctype |-> "NONE", sender_wxid |-> <<>>, actual_user_id |-> <<>>,
     actual_user_nickname |-> <<>>, other_user_id |-> <<>>,
     at_list |-> ats, self_display_name |-> <<>>,
     image_info |-> "UNSET", voice_info |-> "UNSET", pat_info |-> NoPatInfo]

GroupId == <<"g@chatroom">>
UserId == <<"u1">>

Chars == {"a", ":", "NL", "<"}
Payloads == {<<>>, <<"@Bot">>, <<"DocAttr">>, <<"DocElem">>, <<"DocPat">>, <<"DocBad">>}

SeqsUpTo(S, n) == UNION {[1..k -> S] : k \in 0..n}

Contents(n) == {h \o p : h \in SeqsUpTo(Chars, n), p \in Payloads}

IntTags == {"i1", "i3", "i34", "i43", "i47", "i49", "i10000", "i99"}
AllTags == TextTags \cup ImageTags \cup VoiceTags \cup VideoTags \cup EmojiTags
           \cup AppTags \cup SystemTags \cup {"i10002", "s10002", "i99", "s99"}

PlainMsg == RawMsg("absent", "NoSrc", <<>>, NoField)

\* raw mappings that carry one of the optional fields
FieldMsgs ==
    {PlainMsg,
     RawMsg("absent", "NoSrc", <<"u2">>, NoField),
     RawMsg("absent", "SrcAt", <<>>, NoField),
     RawMsg("absent", "SrcComma", <<>>, NoField),
     RawMsg("absent", "SrcUser", <<>>, NoField),
     RawMsg("absent", "SrcBad", <<>>, NoField),
     RawMsg("absent", "NoSrc", <<>>, [kind |-> "list", val |-> <<(<<"u8">>)>>]),
     RawMsg("absent", "NoSrc", <<>>, [kind |-> "str", val |-> <<",", "u8", ",">>]),
     RawMsg("absent", "NoSrc", <<>>,
            [kind |-> "str", val |-> <<"u8", ",", ",", "u9">>]),
     RawMsg("absent", "SrcAt", <<>>, [kind |-> "list", val |-> <<(<<"u8">>)>>])}

\* group flag and origin id
Origins == {<<TRUE, GroupId>>, <<FALSE, GroupId>>, <<FALSE, UserId>>}

\* group messages of every handler with long contents
LongInput(c) ==
    \E t \in IntTags, s \in Contents(MaxContentLen) :
        c = NewMessage(PlainMsg, <<"m1">>, 0, t, s, GroupId, TRUE, <<>>)

\* every tag encoding, origin and optional field with short contents
ShortInput(c) ==
    \E m \in FieldMsgs, t \in AllTags, s \in Contents(MaxContentLen - 3),
       o \in Origins, ats \in {<<>>, <<(<<>>)>>} :
        c = NewMessage(m, <<"m1">>, 0, t, s, o[2], o[1], ats)

\* messages whose type is only in the raw Type field
TypeInput(c) ==
    \E t \in AllTags, f \in {"i0", "s", "None"},
       s \in Contents(MaxContentLen - 3), o \in Origins :
        c = NewMessage(RawMsg(t, "NoSrc", <<>>, NoField), <<"m1">>, 0, f, s,
                       o[2], o[1], <<>>)

\* contents that end in an app or pat document
NestedPayloads == {<<d>> : d \in AppDocs \cup {"DocPatRoot", "DocPatEmpty"}}

\* app and system messages of every origin whose content holds such a document
NestedInput(c) ==
    \E t \in AppTags \cup SystemTags, h \in SeqsUpTo(Chars, MaxContentLen - 3),
       p \in NestedPayloads, o \in Origins :
        c = NewMessage(PlainMsg, <<"m1">>, 0, t, h \o p, o[2], o[1], <<>>)

----------------------------------------------------------------------------
(* handle_single, handle_group and the _check wrapper around them *)

\* conf(): the keys the handlers read, with the defaults of their .get calls
DefaultConfig ==
    [single_chat_prefix |-> <<(<<>>)>>,
     group_chat_prefix |-> <<>>,
     group_chat_keyword |-> <<>>,
     group_name_white_list |-> {<<"ALL_GROUP">>},
     speech_recognition |-> FALSE,
     group_speech_recognition |-> FALSE]

\* s.startswith(p)
StartsWith(s, p) == Len(p) <= Len(s) /\ SubSeq(s, 1, Len(p)) = p

\* s[len(p):].strip()
CutPrefix(s, p) == Strip(SubSeq(s, Len(p) + 1, Len(s)))

\* s.replace(p, "", 1)
RemoveFirst(s, p) ==
    Let(FindStr(s, p), LAMBDA i :
        IF i = 0 THEN s
        ELSE SubSeq(s, 1, i - 1) \o SubSeq(s, i + Len(p), Len(s)))

\* the first prefix of the list that is non-empty and starts s, <<>> if none
MatchPrefix(prefixes, s) ==
    Let({i \in 1..Len(prefixes) :
            prefixes[i] # <<>> /\ StartsWith(s, prefixes[i])}, LAMBDA I :
        IF I = {} THEN <<>> ELSE prefixes[Min(I)])

\* "" in prefixes
HasEmpty(prefixes) == \E i \in 1..Len(prefixes) : prefixes[i] = <<>>

\* x in l
InList(l, x) == \E i \in 1..Len(l) : l[i] = x

\* lines 2204-2280 with the session of a group message keyed by its sender
ComposePerSender(ctype, content, isgroup, msg) ==
    [type |-> ctype, content |-> content, isgroup |-> isgroup,
     from_user_id |-> msg.sender_wxid,
     other_user_id |-> IF isgroup THEN msg.from_user_id ELSE None,
     group_id |-> IF isgroup THEN msg.from_user_id ELSE None,
     session_id |-> msg.sender_wxid,
     receiver |-> IF isgroup THEN msg.from_user_id ELSE msg.sender_wxid,
     msg_id |-> msg.msg_id]

\* lines 2204-2280
_compose_context(ctype, content, isgroup, msg) ==
    IF isgroup THEN
        [type |-> ctype, content |-> content, isgroup |-> TRUE,
         from_user_id |-> msg.sender_wxid,
         other_user_id |-> IF msg.other_user_id # <<>> THEN msg.other_user_id
                           ELSE msg.from_user_id,
         group_id |-> msg.from_user_id,
         session_id |-> IF msg.other_user_id # <<>> THEN msg.other_user_id
                        ELSE msg.from_user_id,
         receiver |-> msg.from_user_id,
         msg_id |-> msg.msg_id]
    ELSE
        [type |-> ctype, content |-> content, isgroup |-> FALSE,
         from_user_id |-> msg.sender_wxid,
         other_user_id |-> None,
         group_id |-> None,
         session_id |-> msg.sender_wxid,
         receiver |-> msg.sender_wxid,
         msg_id |-> msg.msg_id]

\* lines 635-654 with an empty prefix list filtering like a non-matching one
SingleFilterEmptyList(c, cfg) ==
    IF c.ctype # "TEXT" THEN <<TRUE, c.content>>
    ELSE Let(MatchPrefix(cfg.single_chat_prefix, c.content), LAMBDA p :
             IF p # <<>> THEN <<TRUE, CutPrefix(c.content, p)>>
             ELSE IF ~HasEmpty(cfg.single_chat_prefix)
                  THEN <<FALSE, c.content>>
             ELSE <<TRUE, c.content>>)

\* lines 635-654: <<dispatch?, content>> for a direct message
SingleFilter(c, cfg) ==
    IF c.ctype # "TEXT" THEN <<TRUE, c.content>>
    ELSE Let(MatchPrefix(cfg.single_chat_prefix, c.content), LAMBDA p :
             IF p # <<>> THEN <<TRUE, CutPrefix(c.content, p)>>
             ELSE IF cfg.single_chat_prefix # <<>> /\ ~HasEmpty(cfg.single_chat_prefix)
                  THEN <<FALSE, c.content>>
             ELSE <<TRUE, c.content>>)

\* lines 620-666: <<cmsg, contexts produced>>
handle_single(c0, rooms, cfg) ==
    Let(_process_message(c0, rooms), LAMBDA c :
        IF c.ctype = "VOICE" /\ ~cfg.speech_recognition THEN <<c, <<>>>> ELSE
        Let(SingleFilter(c, cfg), LAMBDA f :
        Let([c EXCEPT !.content = f[2]], LAMBDA c2 :
            IF ~f[1] THEN <<c2, <<>>>>
            ELSE <<c2, <<_compose_context(c2.ctype, c2.content, FALSE, c2)>>>>)))

\* lines 687-727: the group passes the whitelist
InWhiteList(c, rooms, cfg) ==
    Let({e \in rooms : e.id = c.from_user_id /\ e.nickName # <<>>}, LAMBDA E :
        \/ c.from_user_id = <<>>
        \/ <<"ALL_GROUP">> \in cfg.group_name_white_list
        \/ (IF E = {} THEN c.from_user_id ELSE (CHOOSE e \in E : TRUE).nickName)
               \in cfg.group_name_white_list
        \/ c.from_user_id \in cfg.group_name_white_list)

\* lines 757-823 with any mention counting as a mention of the bot
AtTriggerAny(c) ==
    IF c.at_list # <<>> \/ ContainsAt(c.content)
    THEN <<TRUE, Strip(c.content)>>
    ELSE <<FALSE, c.content>>

\* lines 757-823: <<mentioned?, content>>
AtTrigger(c) ==
    LET in_list == c.at_list # <<>> /\ InList(c.at_list, BotWxid)
        in_text == c.content # <<>>
                   /\ (ContainsAtName(c.content, BotName)
                       \/ (c.self_display_name # <<>>
                           /\ ContainsAtName(c.content, c.self_display_name)))
        cut == IF Contains(c.content, <<"@Bot">>)
               THEN Strip(RemoveFirst(c.content, <<"@Bot">>))
               ELSE Strip(c.content)
    IN IF (c.at_list # <<>> \/ ContainsAt(c.content)) /\ (in_list \/ in_text)
       THEN <<TRUE, cut>>
       ELSE <<FALSE, c.content>>

\* lines 729-828: <<dispatch?, content>> for a group message
GroupFilter(c, cfg) ==
    IF c.ctype # "TEXT" THEN <<TRUE, c.content>>
    ELSE Let(MatchPrefix(cfg.group_chat_prefix, c.content), LAMBDA p :
             IF p # <<>> THEN <<TRUE, CutPrefix(c.content, p)>>
             ELSE IF \E i \in 1..Len(cfg.group_chat_keyword) :
                        /\ cfg.group_chat_keyword[i] # <<>>
                        /\ Contains(c.content, cfg.group_chat_keyword[i])
                  THEN <<TRUE, c.content>>
             ELSE AtTrigger(c))

\* lines 669-846: <<cmsg, contexts produced>>
handle_group(c0, rooms, cfg) ==
    Let(_process_message(c0, rooms), LAMBDA c :
        IF c.ctype = "VOICE" /\ ~cfg.group_speech_recognition THEN <<c, <<>>>>
        ELSE IF ~InWhiteList(c, rooms, cfg) THEN <<c, <<>>>> ELSE
        Let(GroupFilter(c, cfg), LAMBDA f :
        Let([c EXCEPT !.content = f[2]], LAMBDA c2 :
            IF ~f[1] THEN <<c2, <<>>>>
            ELSE <<c2, <<_compose_context(c2.ctype, c2.content, TRUE, c2)>>>>)))

Timeout == 60

\* hash(str(cmsg.msg)): the raw event the message object was built from
RawEvent(c) ==
    [msg |-> c.msg, content |-> c.content, create_time |-> c.create_time,
     from_user_id |-> c.from_user_id, msg_type |-> c.msg_type]

\* lines 136-141: the id _check works with
CheckId(c, t) == IF c.msg_id = <<>> THEN <<"msg_", t, RawEvent(c)>> ELSE c.msg_id

----------------------------------------------------------------------------
(* The channel object and the task that startup runs *)

ConnectTimeout == 30   \* time_out, seconds
LoginTimeout == 120    \* login_timeout, seconds
PollInterval == 2      \* asyncio.sleep(2) and the decrement of both timeouts

\* WX849Channel.__init__ (lines 172-181)
\* msg.from_user_id of the messages handed to handle_group: a group id, or ""
RoomIds == {<<"g@chatroom">>, <<>>}

\* self.group_name_cache = {}
NoNames == [g \in RoomIds |-> None]

\* threads started by _compose_context while the model runs
MaxThreads == 2

\* a thread that was not started yet.  ret is the value _get_group_name
\* returned, chatrooms_info the file as the coroutine loaded it, group_info and
\* response the results of GetChatRoomInfo and GetChatRoomMemberDetail.
NoThread ==
    [pc |-> "idle", group_id |-> <<>>, chatrooms_info |-> {},
     group_info |-> <<>>, response |-> <<>>, ret |-> None]

NoThreads == [t \in 1..MaxThreads |-> NoThread]

NewChannel ==
    [wxid |-> None, user_id |-> None, name |-> None,
     is_running |-> FALSE, is_logged_in |-> FALSE,
     group_name_cache |-> NoNames]

\* the channel once startup_task has logged in as the bot and set is_running
RunningChannel ==
    [wxid |-> BotWxid, user_id |-> BotWxid, name |-> BotName,
     is_running |-> TRUE, is_logged_in |-> TRUE,
     group_name_cache |-> NoNames]

\* startup_task before its first step.  saved is conf().get("wx849_wxid", "").
\* called is the set of backend operations called so far, twice the result of
\* twice_login, saved_path how the saved-session path ended, result the value
\* _initialize_bot returned, aiohttp whether the local name aiohttp is bound,
\* check the outcome of the last check_login_uuid,
\* polls, awaken_polls and qr_polls the iterations of the three loops; of the
\* listener, fetch is the outcome of the last get_new_message, batch the
\* messages it returned, idx the next one, done what became of the earlier
\* ones and wait the argument of the asyncio.sleep that follows
NewTask(saved) ==
    [pc |-> "start", saved_wxid |-> saved,
     time_out |-> ConnectTimeout, login_timeout |-> LoginTimeout,
     is_connected |-> FALSE, aiohttp |-> FALSE,
     called |-> {}, twice |-> "none", saved_path |-> "pending",
     polls |-> 0, awaken_polls |-> 0, qr_polls |-> 0,
     result |-> "none", check |-> "none", fetch |-> "none", batch |-> <<>>,
     idx |-> 1,
     done |-> <<>>, wait |-> 0]

\* the task while _message_listener hands a fetched message to a handler
ListeningTask ==
    [NewTask(BotWxid) EXCEPT !.pc = "batch", !.is_connected = TRUE,
                             !.result = "True"]

\* send has not been called
NoSending ==
    [n |-> 0, reply |-> [type |-> "None", content |-> "None"],
     context |-> [receiver |-> None, msg |-> <<>>],
     exists |-> FALSE, downloaded |-> FALSE, calls |-> <<>>]

----------------------------------------------------------------------------
(* The normalizer applied to one message *)

\* a group text in the format "wxid:\n消息内容"
PrefixedInput(c) ==
    \E t \in TextTags, b \in Contents(MaxContentLen - 1) :
        c = NewMessage(PlainMsg, <<"m1">>, 0, t, <<"a", ":", "NL">> \o b,
                       GroupId, TRUE, <<>>)

InitNormalize ==
    /\ \/ LongInput(cmsg)
       \/ PrefixedInput(cmsg)
       \/ ShortInput(cmsg)
       \/ TypeInput(cmsg)
       \/ NestedInput(cmsg)
    /\ delivered = cmsg
    /\ pc = "process"
    /\ now = 0
    /\ received_msgs = {}
    /\ assigned = {}
    /\ rooms_file = {}
    /\ config = DefaultConfig
    /\ produced = <<>>
    /\ handled = 0
    /\ chan = RunningChannel
    /\ task = ListeningTask
    /\ sending = NoSending
    /\ backend = <<>>
    /\ threads = NoThreads

\* self._process_message(cmsg) in handle_single / handle_group
ProcessMessage ==
    /\ pc = "process"
    /\ cmsg' = _process_message(cmsg, rooms_file)
    /\ pc' = "processed"
    /\ UNCHANGED <<delivered, now, received_msgs, assigned, rooms_file,
                   config, produced, handled, startVars, sendVars, threads>>

NextNormalize == ProcessMessage

SpecNormalize == InitNormalize /\ [][NextNormalize]_vars

----------------------------------------------------------------------------
(* The running channel: the listener hands each fetched message to          *)
(* handle_group or handle_single (lines 550-575), both wrapped by _check    *)
(***************************************************************************)

\* a configuration that filters: prefixes, a keyword, a whitelist
StrictConfig ==
    [single_chat_prefix |-> <<(<<"a">>)>>,
     group_chat_prefix |-> <<(<<"a">>)>>,
     group_chat_keyword |-> <<(<<"<">>)>>,
     group_name_white_list |-> {GroupId},
     speech_recognition |-> TRUE,
     group_speech_recognition |-> TRUE]

Configs == {DefaultConfig, StrictConfig}

\* <<tag, content, origin id>> of the direct messages the listener fetches
SingleShapes ==
    {<<"i1", <<"a">>, UserId>>,
     <<"i1", <<"<", "a">>, UserId>>,
     <<"i34", <<"DocAttr">>, UserId>>}

\* <<tag, content, origin id>> of the group messages the listener fetches
GroupShapes ==
    {<<"i1", <<"a", ":", "NL", "@Bot">>, GroupId>>,
     <<"i1", <<"a", ":", "NL", "a">>, GroupId>>,
     <<"i99", <<"a", ":", "NL", "<">>, GroupId>>}

Ids == {<<>>, <<"m1">>}
\* current_time - create_time: a message of this second and one older than
\* the timeout
Ages == {0, Timeout + 1}

Init ==
    /\ cmsg = NewMessage(PlainMsg, <<>>, 0, "None", <<>>, <<>>, FALSE, <<>>)
    /\ delivered = cmsg
    /\ pc = "idle"
    /\ now = 0
    /\ received_msgs = {}
    /\ assigned = {}
    /\ rooms_file = {}
    /\ config \in Configs
    /\ produced = <<>>
    /\ handled = 0
    /\ chan = RunningChannel
    /\ task = ListeningTask
    /\ sending = NoSending
    /\ backend = <<>>
    /\ threads = NoThreads

\* time.time() advances
Tick ==
    /\ now < MaxTicks
    /\ now' = now + 1
    /\ UNCHANGED <<cmsg, delivered, pc, received_msgs, assigned, rooms_file,
                   config, produced, handled, startVars, sendVars, threads>>

\* lines 153-157 with the stale test moved one second
IsStaleLenient(m, t) == m.create_time < t - Timeout - 1

\* lines 153-157: the message is older than the timeout at time t
IsStale(m, t) == m.create_time < t - Timeout

\* _check recording the id only for the messages it passes on to the handler
CheckedMarkLate(m, result) ==
    /\ handled < MaxDeliveries
    /\ handled' = handled + 1
    /\ delivered' = m
    /\ \E msgId \in {CheckId(m, now)} :
          /\ assigned' = IF m.msg_id = <<>>
                         THEN assigned \cup {<<RawEvent(m), msgId>>}
                         ELSE assigned
          /\ IF msgId \in received_msgs
             THEN /\ pc' = "duplicate"
                  /\ cmsg' = m
                  /\ UNCHANGED <<received_msgs, produced>>
             ELSE IF IsStale(m, now)
                  THEN /\ pc' = "stale"
                       /\ cmsg' = m
                       /\ UNCHANGED <<received_msgs, produced>>
                  ELSE \E r \in {result} :
                       /\ received_msgs' = received_msgs \cup {msgId}
                       /\ cmsg' = r[1]
                       /\ \/ /\ pc' = "handled"
                             /\ produced' = produced \o r[2]
                          \/ /\ r[2] # <<>>
                             /\ pc' = "raised"
                             /\ UNCHANGED produced
    /\ UNCHANGED <<now, rooms_file, config>>

\* lines 134-163: the wrapper around a handler, called with message m;
\* result is what the wrapped handler does with m.  The handler's body is
\* one try block (lines 621-666, 670-846): self.produce(context) either
\* queues the context or raises, and the handler logs the exception
Checked(m, result) ==
    /\ handled < MaxDeliveries
    /\ handled' = handled + 1
    /\ delivered' = m
    /\ \E msgId \in {CheckId(m, now)} :
          /\ assigned' = IF m.msg_id = <<>>
                         THEN assigned \cup {<<RawEvent(m), msgId>>}
                         ELSE assigned
          /\ IF msgId \in received_msgs
             THEN /\ pc' = "duplicate"
                  /\ cmsg' = m
                  /\ UNCHANGED <<received_msgs, produced>>
             ELSE /\ received_msgs' = received_msgs \cup {msgId}
                  /\ IF IsStale(m, now)
                     THEN /\ pc' = "stale"
                          /\ cmsg' = m
                          /\ UNCHANGED produced
                     ELSE \E r \in {result} :
                          /\ cmsg' = r[1]
                          /\ \/ /\ pc' = "handled"
                                /\ produced' = produced \o r[2]
                             \/ /\ r[2] # <<>>
                                /\ pc' = "raised"
                                /\ UNCHANGED produced
    /\ UNCHANGED <<now, rooms_file, config>>

\* self.handle_single(cmsg) for a fetched direct message
HandleSingle ==
    \E sh \in SingleShapes, id \in Ids, age \in Ages :
        \E m \in {NewMessage(PlainMsg, id, now - age, sh[1], sh[2], sh[3],
                              FALSE, <<>>)} :
            /\ Checked(m, handle_single(m, rooms_file, config))
            /\ UNCHANGED <<startVars, sendVars, threads>>

\* self.handle_group(cmsg) for a fetched group message
HandleGroup ==
    \E sh \in GroupShapes, id \in Ids, age \in Ages :
        \E m \in {NewMessage(PlainMsg, id, now - age, sh[1], sh[2], sh[3],
                              TRUE, <<>>)} :
            /\ Checked(m, handle_group(m, rooms_file, config))
            /\ UNCHANGED <<startVars, sendVars, threads>>

Next == Tick \/ HandleSingle \/ HandleGroup

Spec == Init /\ [][Next]_vars

----------------------------------------------------------------------------
(* Properties of the normalizer, checked under SpecNormalize *)

CanonicalTypes == {"TEXT", "IMAGE", "VOICE", "VIDEO", "XML", "LINK", "FILE",
                   "MINIAPP", "PAT", "QUOTE", "SYSTEM", "UNKNOWN"}

\* the encodings of the tag with number n and alias name a
Encodings(n, a) == {"i" \o n, "s" \o n, a}

KnownEncodings ==
    {Encodings("1", "Text"), Encodings("3", "Image"), Encodings("34", "Voice"),
     Encodings("43", "Video"), Encodings("47", "Emoji"), Encodings("49", "App"),
     Encodings("10000", "System")}

Processed == pc = "processed"

\* the message was delivered as a group message
DeliveredGroup == delivered.is_group \/ EndsWithChatroom(delivered.from_user_id)

\* C1: a group text message "<sender>:\n<body>" whose body holds "@<bot name>"
\* and that has no MsgSource, no alternate sender field and no mention field
\* ends as type TEXT, sender <sender>, content <body>, mentions [bot wxid].
C1_SpecExample ==
    LET sp == Split1(delivered.content, <<":", "NL">>)
    IN (/\ Processed
        /\ DeliveredGroup
        /\ EffectiveType(delivered) \in Encodings("1", "Text")
        /\ delivered.msg = PlainMsg
        /\ delivered.at_list = <<>>
        /\ Len(sp) = 2
        /\ sp[1] # <<>>
        /\ ~StartsWithLt(sp[1])
        /\ ~Contains(sp[1], <<":">>)
        /\ ContainsAtName(sp[2], BotName))
       => (/\ cmsg.ctype = "TEXT"
           /\ cmsg.sender_wxid = sp[1]
           /\ cmsg.content = sp[2]
           /\ cmsg.at_list = <<BotWxid>>)

\* C2: after _process_message the type is one of the canonical types, and it
\* is UNKNOWN when the tag is no encoding of a known tag.
C2_TypeAlwaysSet ==
    Processed =>
        /\ cmsg.ctype \in CanonicalTypes
        /\ (EffectiveType(delivered) \notin UNION KnownEncodings
               => cmsg.ctype = "UNKNOWN")

C2_Witness ==
    /\ Processed
    /\ delivered.ctype = "NONE"
    /\ delivered.msg_type = "s99"
    /\ cmsg.ctype = "UNKNOWN"

\* C3: after _process_message the sender id of a group message is non-empty
\* and holds no "<".
C3_SenderNeverMarkup ==
    (Processed /\ DeliveredGroup)
        => (cmsg.sender_wxid # <<>> /\ ~ContainsLt(cmsg.sender_wxid))

\* C4: after normalization of a message of any type the mention list is never
\* the one-element list [""].
C4_NoEmptyMention ==
    Processed => cmsg.at_list # <<(<<>>)>>

\* C5: a raw event without message id gets one synthesized id, the same
\* whenever that event is delivered, and the record that was handled carries
\* that id (its message id is not left empty).
C5_SynthesizedIdStable ==
    /\ \A a, b \in assigned : a[1] = b[1] => a[2] = b[2]
    /\ (pc = "handled" /\ delivered.msg_id = <<>>) => cmsg.msg_id # <<>>

\* C6: the tag selects the type: 1 TEXT, 3 IMAGE, 34 VOICE, 43 VIDEO, 47 TEXT,
\* 49 the app-XML family, 10000 SYSTEM or PAT, every other tag UNKNOWN.
C6_TagTable ==
    LET t == EffectiveType(delivered)
    IN Processed =>
        /\ (t \in {"i1", "s1"} => cmsg.ctype = "TEXT")
        /\ (t \in {"i3", "s3"} => cmsg.ctype = "IMAGE")
        /\ (t \in {"i34", "s34"} => cmsg.ctype = "VOICE")
        /\ (t \in {"i43", "s43"} => cmsg.ctype = "VIDEO")
        /\ (t \in {"i47", "s47"} => cmsg.ctype = "TEXT")
        /\ (t \in {"i49", "s49"}
              => cmsg.ctype \in {"XML", "LINK", "FILE", "MINIAPP", "QUOTE"})
        /\ (t \in {"i10000", "s10000"} => cmsg.ctype \in {"SYSTEM", "PAT"})
        /\ (t \notin UNION KnownEncodings => cmsg.ctype = "UNKNOWN")

C6_Witness ==
    /\ Processed
    /\ EffectiveType(delivered) = "i47"
    /\ cmsg.ctype = "TEXT"

\* C7: the integer, the numeric-string and the alias form of one known tag
\* give the same type for otherwise identical messages.
C7_EncodingsAgree ==
    Processed =>
        \A E \in KnownEncodings :
            EffectiveType(delivered) \in E =>
                \A e \in E :
                    _process_message([delivered EXCEPT !.msg_type = e],
                                     rooms_file).ctype = cmsg.ctype

C7_Witness ==
    /\ Processed
    /\ delivered.msg_type = "Voice"
    /\ cmsg.ctype = "VOICE"
    /\ _process_message([delivered EXCEPT !.msg_type = "i34"], rooms_file).ctype
           = "VOICE"

\* C8: tag 10002 is classified like tag 10000: PAT when the content holds a
\* pat element, otherwise SYSTEM.
C8_Tag10002IsSystem ==
    (Processed /\ EffectiveType(delivered) \in {"i10002", "s10002"})
        => /\ cmsg.ctype \in {"PAT", "SYSTEM"}
           /\ cmsg.ctype = _process_message([delivered EXCEPT !.msg_type = "i10000"],
                                            rooms_file).ctype

\* "<sysmsg" in s
ContainsSysmsg(s) == \E i \in 1..Len(s) : s[i] \in Docs /\ Doc(s[i]).root = "sysmsg"

\* C9: a message whose tag matches no classifier and whose content lacks
\* "<sysmsg" ends with type TEXT.
C9_UnknownBecomesText ==
    (/\ Processed
     /\ EffectiveType(delivered) \notin UNION KnownEncodings
     /\ ~ContainsSysmsg(delivered.content))
        => cmsg.ctype = "TEXT"

\* what step 3 (fromusername from XML content) may find in content s: the
\* fromusername attribute, the fromusername element, or the element lookup
\* of the parsed document; nothing when s does not start with "<"
XmlReadings(s) ==
    {SearchAttrFrom(s), SearchElemFrom(s), XmlContentSender(s)}
        \cup (IF StartsWithLt(s) THEN {} ELSE {<<>>})

\* the sender the documented order gives for the raw group message c when
\* step 3 finds xml
DocumentedSender(c, xml) ==
    LET r == ContentSender(c.content)
    IN IF r.ok THEN r.sender
       ELSE IF xml # <<>> THEN xml
       ELSE IF SenderField(c.msg) # <<>> THEN SenderField(c.msg)
       ELSE UnknownUser(c)

\* C10: the final sender of a group message of any type is the result of the
\* first method that succeeds on the raw content, in the documented order.
C10_SenderOrder ==
    (Processed /\ DeliveredGroup) =>
        \E xml \in XmlReadings(delivered.content) :
            cmsg.sender_wxid = DocumentedSender(delivered, xml)

\* the tags of the text, image, voice, video, emoji and app-XML handlers
SenderTags == TextTags \cup ImageTags \cup VoiceTags \cup VideoTags
              \cup EmojiTags \cup AppTags

\* C11: for a group message of type text, image, voice, video, emoji or
\* app-XML whose content has a colon-prefix sender and a fromusername
\* attribute that names another id, the final sender is the colon-prefix one.
C11_ColonBeatsAttribute ==
    LET r == ContentSender(delivered.content)
        a == SearchAttrFrom(delivered.content)
    IN (/\ Processed
        /\ DeliveredGroup
        /\ EffectiveType(delivered) \in SenderTags
        /\ r.ok
        /\ a # <<>>
        /\ a # r.sender)
       => cmsg.sender_wxid = r.sender

\* the message was delivered as a direct message
DeliveredDirect == ~delivered.is_group /\ ~EndsWithChatroom(delivered.from_user_id)

\* C12: for a message that is not group-flagged and whose origin id does not
\* end in @chatroom the final sender id is the origin id, for every type tag
\* and whatever colon prefix, fromusername or pat element the content holds.
C12_DirectSenderIsOrigin ==
    (Processed /\ DeliveredDirect) => cmsg.sender_wxid = delivered.from_user_id

C12_Witness ==
    /\ Processed
    /\ DeliveredDirect
    /\ EffectiveType(delivered) = "i10000"
    /\ delivered.content = <<"DocPat">>
    /\ cmsg.ctype = "PAT"
    /\ cmsg.pat_info.patter = <<"u6">>
    /\ cmsg.sender_wxid = UserId

\* the text of appmsg/type in content s, "none" when s is not one well-formed
\* document or the document has no such element
AppType(s) ==
    LET d == FromString(s)
    IN IF d = ParseError THEN "none" ELSE Doc(d).appType

\* the message was delivered with the app-XML tag (49)
DeliveredApp == EffectiveType(delivered) \in AppTags

\* C13: a type-49 message whose nested appmsg type is 5, 6 or 33 has the
\* canonical type LINK, FILE or MINIAPP respectively.
C13_AppSubtypes ==
    (Processed /\ DeliveredApp) =>
        /\ (AppType(delivered.content) = "5" => cmsg.ctype = "LINK")
        /\ (AppType(delivered.content) = "6" => cmsg.ctype = "FILE")
        /\ (AppType(delivered.content) = "33" => cmsg.ctype = "MINIAPP")

\* C14: a type-49 message whose nested appmsg type is 57 yields a QUOTE
\* record, also when the quoted XML does not parse.
C14_QuoteRecord ==
    (Processed /\ DeliveredApp /\ AppType(delivered.content) = "57")
        => cmsg.ctype = "QUOTE"

\* C15: a type-49 message whose nested appmsg type is none of 5, 6, 33, 57,
\* or whose content does not parse, has the canonical type XML.
C15_OtherAppIsXml ==
    (Processed /\ DeliveredApp
       /\ AppType(delivered.content) \notin {"5", "6", "33", "57"})
        => cmsg.ctype = "XML"

C15_Witness ==
    /\ Processed
    /\ delivered.msg_type = "s49"
    /\ delivered.content = <<"DocBad">>
    /\ FromString(delivered.content) = ParseError
    /\ cmsg.ctype = "XML"

\* the text of a sub-element, the empty string when the sub-element is
\* absent or has no text
TextOrEmpty(v) == IF v \in {Absent, None} THEN <<>> ELSE v

\* C16: a system message (10000) whose content is a document with a pat
\* element, as root or under a wrapper, is PAT with pat_info {patter, patted,
\* suffix}, each the sub-element's text or the empty string; a system message
\* whose content holds no pat element is SYSTEM.
C16_PatRecord ==
    LET d == FromString(delivered.content)
    IN (Processed /\ EffectiveType(delivered) \in SystemTags) =>
        /\ (d # ParseError /\ Doc(d).pat # "none") =>
              /\ cmsg.ctype = "PAT"
              /\ cmsg.pat_info = [patter |-> TextOrEmpty(Doc(d).patFrom),
                                  patted |-> TextOrEmpty(Doc(d).patPatted),
                                  suffix |-> TextOrEmpty(Doc(d).patSuffix)]
        /\ ~ContainsPat(delivered.content) => cmsg.ctype = "SYSTEM"

\* the ids the MsgSource atuserlist of message c names
SourceMentions(c) ==
    LET src == Source(c.msg.MsgSource)
    IN IF c.msg.MsgSource # "NoSrc" /\ src.wellformed
       THEN ParseAtString(src.atuserlist) ELSE <<>>

\* the ids of the first of the raw fields AtUserList, at_list, atlist of
\* message c that names any
FieldMentions(c) ==
    LET ids(k) == CASE c.msg[k].kind = "list" -> Truthy(c.msg[k].val)
                    [] c.msg[k].kind = "str" -> ParseAtString(c.msg[k].val)
                    [] OTHER -> <<>>
        I == {i \in 1..Len(AtKeys) : ids(AtKeys[i]) # <<>>}
    IN IF I = {} THEN <<>> ELSE ids(AtKeys[Min(I)])

\* the mention list by the documented priority, alias being the bot's alias
\* in the group
DocumentedMentions(c, alias) ==
    IF SourceMentions(c) # <<>> THEN SourceMentions(c)
    ELSE IF FieldMentions(c) # <<>> THEN FieldMentions(c)
    ELSE IF ContainsAtName(c.content, BotName) \/ ContainsAtName(c.content, alias)
         THEN <<BotWxid>>
    ELSE <<>>

\* the message was delivered with the text tag (1)
DeliveredText == EffectiveType(delivered) \in TextTags

C18_DirectNoMentions ==
    (Processed /\ DeliveredDirect /\ delivered.at_list = <<>>)
        => cmsg.at_list = <<>>

\* the raw-field mention steps (lines 1119-1130, 1147-1149) applied to the
\* list l given as the raw field AtUserList
FieldNormalize(l) ==
    NormalizeAtList(
        AtFields(RawMsg("absent", "NoSrc", <<>>, [kind |-> "list", val |-> l]),
                 1, <<>>))

\* C19: mention-list normalization is idempotent: the list a text message
\* ends with, fed back as a raw mention field, comes out the same (same
\* elements, same order).
C19_MentionIdempotent ==
    (Processed /\ DeliveredText)
        => FieldNormalize(cmsg.at_list) = cmsg.at_list

C19_Witness ==
    /\ Processed
    /\ DeliveredText
    /\ delivered.msg.AtUserList = [kind |-> "str", val |-> <<"u8", ",", ",", "u9">>]
    /\ cmsg.at_list = <<(<<"u8">>), (<<"u9">>)>>
    /\ FieldNormalize(cmsg.at_list) = <<(<<"u8">>), (<<"u9">>)>>

\* no part of content s is a well-formed document: every XML parse of s or
\* of a piece of s fails
Unparseable(s) == \A i \in 1..Len(s) : s[i] \in Docs => ~Doc(s[i]).wellformed

\* C20: a parse failure in an XML step stays inside that step: normalization
\* completes with a canonical type, the image or voice sub-payload is the
\* empty one, a system message is SYSTEM, and the sender steps that follow
\* the failed XML step (raw sender fields, then the placeholder) still run.
C20_ParseFailureIsolated ==
    (Processed /\ Unparseable(delivered.content)) =>
        /\ cmsg.ctype \in CanonicalTypes
        /\ (EffectiveType(delivered) \in ImageTags => cmsg.image_info = "EMPTY")
        /\ (EffectiveType(delivered) \in VoiceTags => cmsg.voice_info = "EMPTY")
        /\ (EffectiveType(delivered) \in SystemTags => cmsg.ctype = "SYSTEM")
        /\ (/\ DeliveredGroup
            /\ StartsWithLt(delivered.content)
            /\ ~Contains(delivered.content, <<":">>))
           => cmsg.sender_wxid = IF SenderField(delivered.msg) # <<>>
                                 THEN SenderField(delivered.msg)
                                 ELSE UnknownUser(delivered)

C20_Witness ==
    /\ Processed
    /\ DeliveredGroup
    /\ EffectiveType(delivered) = "i3"
    /\ delivered.content = <<"DocBad">>
    /\ delivered.image_info = "UNSET"
    /\ SenderField(delivered.msg) = <<"u2">>
    /\ cmsg.ctype = "IMAGE"
    /\ cmsg.image_info = "EMPTY"
    /\ cmsg.sender_wxid = <<"u2">>

----------------------------------------------------------------------------
(* Outgoing replies: send *)

MaxSends == 2   \* calls of send

\* the variables of the listener's side
msgVars == <<cmsg, delivered, pc, now, received_msgs, assigned, rooms_file,
             config, produced, handled>>

\* the listener has fetched nothing yet
NoDelivery ==
    /\ cmsg = NewMessage(PlainMsg, <<>>, 0, "None", <<>>, <<>>, FALSE, <<>>)
    /\ delivered = cmsg
    /\ pc = "idle"
    /\ now = 0
    /\ received_msgs = {}
    /\ assigned = {}
    /\ rooms_file = {}
    /\ produced = <<>>
    /\ handled = 0

\* `not x` for a str or None
Empty(x) == x = None \/ x = <<>>

SendTxt == "/Msg/SendTxt"
UploadImg == "/Msg/UploadImg"

\* lines 1580-1611: one POST to the backend; the record keeps the endpoint,
\* the addressee (params["ToWxid"]) and the sender (params["Wxid"])
_call_api(endpoint, to_user_id, wxid) ==
    <<[endpoint |-> endpoint, ToWxid |-> to_user_id, Wxid |-> wxid]>>

\* lines 1613-1643: the backend calls _send_message makes
_send_message(to_user_id, wxid) ==
    IF Empty(to_user_id) THEN <<>>
    ELSE _call_api(SendTxt, to_user_id, wxid)

\* lines 1645-1693: the backend calls _send_image makes.  image_input is the
\* Python type of the input ("str" a file path, "BytesIO", "bytes", or
\* anything else); exists is os.path.exists of the path
_send_image(to_user_id, image_input, exists, wxid) ==
    IF Empty(to_user_id) THEN <<>>
    ELSE IF image_input = "str"
         THEN IF ~exists THEN <<>>
              ELSE _call_api(UploadImg, to_user_id, wxid)
    ELSE IF image_input \in {"BytesIO", "bytes"}
         THEN _call_api(UploadImg, to_user_id, wxid)
    ELSE <<>>

\* lines 1698-1703: the receiver send resolves
Receiver(context) ==
    IF ~Empty(context.receiver) THEN context.receiver
    ELSE IF context.msg # <<>> THEN context.msg[1].from_user_id
    ELSE context.receiver

\* lines 1695-1773: the backend calls send makes.  downloaded says that
\* requests.get and the write of the temporary file went through
send(reply, context, exists, downloaded, wxid) ==
    LET receiver == Receiver(context)
    IN IF Empty(receiver) THEN <<>>
       ELSE IF reply.type = "TEXT" THEN _send_message(receiver, wxid)
       ELSE IF reply.type \in {"ERROR", "INFO"}
            THEN _send_message(receiver, wxid)
       ELSE IF reply.type = "IMAGE_URL"
            THEN IF downloaded THEN _send_image(receiver, "str", TRUE, wxid)
                 ELSE <<>>
       ELSE IF reply.type = "IMAGE"
            THEN _send_image(receiver, reply.content, exists, wxid)
       ELSE <<>>

\* the replies handed to send: their type and the Python type of the content
Replies ==
    [type : {"TEXT", "ERROR", "INFO", "IMAGE_URL", "VOICE"}, content : {"str"}]
    \cup [type : {"IMAGE"}, content : {"str", "BytesIO", "bytes", "Image"}]

\* the contexts handed to send: context.get("receiver"), and
\* context.get("msg") as <<>> for None and <<msg>> for a message
Contexts ==
    [receiver : {None, <<>>, UserId, GroupId},
     msg : {<<>>, <<[from_user_id |-> <<>>]>>, <<[from_user_id |-> <<"u2">>]>>}]

InitSend ==
    /\ NoDelivery
    /\ config = DefaultConfig
    /\ chan = RunningChannel
    /\ task = ListeningTask
    /\ sending = NoSending
    /\ backend = <<>>
    /\ threads = NoThreads

\* self.send(reply, context), called by the reply consumer
Send ==
    /\ sending.n < MaxSends
    /\ \E reply \in Replies, context \in Contexts, exists \in BOOLEAN,
          downloaded \in BOOLEAN :
          \* the file system matters to a path only, the download to a URL
          /\ exists => (reply.type = "IMAGE" /\ reply.content = "str")
          /\ downloaded => reply.type = "IMAGE_URL"
          /\ \E calls \in {send(reply, context, exists, downloaded,
                                chan.wxid)} :
                /\ sending' = [n |-> sending.n + 1, reply |-> reply,
                               context |-> context, exists |-> exists,
                               downloaded |-> downloaded, calls |-> calls]
                /\ backend' = backend \o calls
    /\ UNCHANGED <<msgVars, startVars, threads>>

NextSend == Send

SpecSend == InitSend /\ [][NextSend]_vars

\* send has been called
Sent == sending.n > 0

\* the endpoint the documented contract names for a reply type
ContractEndpoint(type) ==
    IF type \in {"TEXT", "ERROR", "INFO"} THEN SendTxt
    ELSE IF type \in {"IMAGE", "IMAGE_URL"} THEN UploadImg
    ELSE "unsupported"

\* C21: a call of send issues exactly one backend call, SendTxt for a TEXT,
\* ERROR or INFO reply and UploadImg for an IMAGE or IMAGE_URL reply,
\* addressed to the resolved receiver (the context's receiver, else the
\* message's from_user_id), and no backend call when no receiver can be
\* resolved or the reply type is unsupported
C21_OneCallPerSend ==
    Sent =>
        IF Empty(Receiver(sending.context))
           \/ ContractEndpoint(sending.reply.type) = "unsupported"
        THEN sending.calls = <<>>
        ELSE /\ Len(sending.calls) = 1
             /\ sending.calls[1].endpoint = ContractEndpoint(sending.reply.type)
             /\ sending.calls[1].ToWxid = Receiver(sending.context)

\* C21 restricted to the replies the backend call does not depend on the
\* file system or the network for: text replies and in-memory images
C21_TextAndMemory ==
    (Sent /\ (sending.reply.type \in {"TEXT", "ERROR", "INFO", "VOICE"}
              \/ sending.reply.content \in {"BytesIO", "bytes"})) =>
        IF Empty(Receiver(sending.context))
           \/ ContractEndpoint(sending.reply.type) = "unsupported"
        THEN sending.calls = <<>>
        ELSE /\ Len(sending.calls) = 1
             /\ sending.calls[1].endpoint = ContractEndpoint(sending.reply.type)
             /\ sending.calls[1].ToWxid = Receiver(sending.context)

\* an IMAGE reply with a receiver whose file does not exist: no call is made
C21_MissingFile ==
    /\ Sent
    /\ sending.reply = [type |-> "IMAGE", content |-> "str"]
    /\ ~sending.exists
    /\ Receiver(sending.context) = UserId
    /\ sending.calls = <<>>

----------------------------------------------------------------------------
(* Properties of _check, checked under Spec *)

\* the step hands one more message to a handler
Delivery == handled' = handled + 1

\* C22: a message id that was seen before never reaches the wrapped handler
\* again: every delivery records its id, whatever becomes of the message
\* (duplicate, stale, filtered out, dispatched, raised), recorded ids stay
\* recorded, and a delivery whose id is recorded leaves the message as it
\* came and dispatches nothing
C22_SeenOnce ==
    [][/\ received_msgs \subseteq received_msgs'
       /\ Delivery =>
            /\ CheckId(delivered', now) \in received_msgs'
            /\ CheckId(delivered', now) \in received_msgs =>
                 /\ pc' = "duplicate"
                 /\ cmsg' = delivered'
                 /\ produced' = produced]_vars

\* a second delivery was dropped as a duplicate after a first one that
\* dispatched nothing (filtered out, stale, or raised)
C22_Witness ==
    /\ pc = "duplicate"
    /\ handled = 2
    /\ produced = <<>>
    /\ delivered.msg_id # <<>>

\* C23: a message created more than 60 seconds before the current time is
\* never normalized or dispatched, and its id is still recorded
C23_StaleSkipped ==
    [][(Delivery /\ delivered'.create_time < now - 60) =>
          /\ pc' \in {"stale", "duplicate"}
          /\ cmsg' = delivered'
          /\ produced' = produced
          /\ CheckId(delivered', now) \in received_msgs']_vars

\* a stale message was skipped and its id recorded
C23_Witness ==
    /\ pc = "stale"
    /\ delivered.create_time < now - 60
    /\ cmsg = delivered
    /\ CheckId(delivered, now) \in received_msgs

----------------------------------------------------------------------------
(* The handlers' filters under every kind of configuration: SpecFilter *)

MaxFiltered == 1   \* messages handed to the handlers under SpecFilter

RoomName == <<"room">>

\* conf().get("single_chat_prefix", [""])
SinglePrefixes == {<<(<<>>)>>, <<>>, <<(<<"a">>)>>, <<(<<"<">>), (<<"a">>)>>}

\* conf().get("group_chat_prefix", []) and conf().get("group_chat_keyword", [])
GroupTriggers == {<<(<<>>), (<<>>)>>, <<(<<(<<"a">>)>>), (<<(<<"<">>)>>)>>}

\* conf().get("group_name_white_list", ["ALL_GROUP"])
WhiteLists == {{<<"ALL_GROUP">>}, {GroupId}, {RoomName}, {<<"u9">>}}

FilterConfigs ==
    {[single_chat_prefix |-> sp,
      group_chat_prefix |-> gt[1],
      group_chat_keyword |-> gt[2],
      group_name_white_list |-> wl,
      speech_recognition |-> TRUE,
      group_speech_recognition |-> TRUE] :
        sp \in SinglePrefixes, gt \in GroupTriggers, wl \in WhiteLists}

\* tmp/wx849_rooms.json: absent or empty, or holding the group with its name
RoomFiles == {{}, {[id |-> GroupId, nickName |-> RoomName, botDisplay |-> <<>>]}}

\* <<tag, content>> of the direct messages handed to handle_single
FilterSingleShapes ==
    {<<"i1", <<"a">>>>,
     <<"i1", <<"a", "NL", "<", "NL">>>>,
     <<"i1", <<"<", "a">>>>,
     <<"i1", <<":">>>>,
     <<"i3", <<"a">>>>}

\* <<raw mapping, tag, content, from_user_id>> of the group messages handed
\* to handle_group
FilterGroupShapes ==
    {<<PlainMsg, "i1", <<"a", ":", "NL", "a", "NL", ":">>, GroupId>>,
     <<PlainMsg, "i1", <<"a", ":", "NL", ":", "<">>, GroupId>>,
     <<PlainMsg, "i1", <<"a", ":", "NL", ":", "@Bot">>, GroupId>>,
     <<PlainMsg, "i1", <<"a", ":", "NL", ":">>, GroupId>>,
     <<RawMsg("absent", "SrcAt", <<>>, NoField), "i1",
       <<"a", ":", "NL", ":">>, GroupId>>,
     <<RawMsg("absent", "NoSrc", <<>>, [kind |-> "list", val |-> <<(<<"u8">>)>>]),
       "i1", <<"a", ":", "NL", ":">>, GroupId>>,
     <<PlainMsg, "i3", <<"a", ":", "NL", "a">>, GroupId>>,
     <<PlainMsg, "i3", <<"a">>, <<>>>>}

\* from_user_id of the messages the listener takes for direct ones (no
\* roomId, toUserName not a chatroom): a user, or a chatroom
SingleOrigins == {UserId, GroupId}

InitFilter ==
    /\ cmsg = NewMessage(PlainMsg, <<>>, 0, "None", <<>>, <<>>, FALSE, <<>>)
    /\ delivered = cmsg
    /\ pc = "idle"
    /\ now = 0
    /\ received_msgs = {}
    /\ assigned = {}
    /\ rooms_file \in RoomFiles
    /\ config \in FilterConfigs
    /\ produced = <<>>
    /\ handled = 0
    /\ chan = RunningChannel
    /\ task = ListeningTask
    /\ sending = NoSending
    /\ backend = <<>>
    /\ threads = NoThreads

\* self.handle_single(cmsg) for a fetched direct message
FilterSingle ==
    /\ handled < MaxFiltered
    /\ \E sh \in FilterSingleShapes, id \in Ids, from \in SingleOrigins :
        \E m \in {NewMessage(PlainMsg, id, now, sh[1], sh[2], from,
                              FALSE, <<>>)} :
            /\ Checked(m, handle_single(m, rooms_file, config))
            /\ UNCHANGED <<startVars, sendVars, threads>>

\* self.handle_group(cmsg) for a fetched group message
FilterGroup ==
    /\ handled < MaxFiltered
    /\ \E sh \in FilterGroupShapes, id \in Ids :
        \E m \in {NewMessage(sh[1], id, now, sh[2], sh[3], sh[4], TRUE, <<>>)} :
            /\ Checked(m, handle_group(m, rooms_file, config))
            /\ UNCHANGED <<startVars, sendVars, threads>>

NextFilter == FilterSingle \/ FilterGroup

SpecFilter == InitFilter /\ [][NextFilter]_vars

\* the step queues a context
Dispatched == produced' # produced

\* the context the step queued
Queued == produced'[Len(produced')]

\* some non-empty prefix of the list starts the content
PrefixStarts(prefixes, content) ==
    \E i \in 1..Len(prefixes) :
        prefixes[i] # <<>> /\ StartsWith(content, prefixes[i])

\* C24: a direct TEXT message that reaches handle_single's filter is
\* dispatched if and only if its content starts with a non-empty configured
\* single_chat_prefix, or the list contains the empty string, or the list is
\* empty; on a prefix match the dispatched content is the content without
\* that prefix, stripped
C24_SinglePrefix ==
    [][(Delivery /\ ~delivered'.is_group /\ pc' = "handled") =>
          \E c \in {_process_message(delivered', rooms_file)} :
              c.ctype = "TEXT" =>
                 /\ Dispatched <=>
                       \/ PrefixStarts(config.single_chat_prefix, c.content)
                       \/ HasEmpty(config.single_chat_prefix)
                       \/ config.single_chat_prefix = <<>>
                 /\ PrefixStarts(config.single_chat_prefix, c.content) =>
                       \E i \in 1..Len(config.single_chat_prefix) :
                          \E q \in {config.single_chat_prefix[i]} :
                             /\ q # <<>>
                             /\ StartsWith(c.content, q)
                             /\ Queued.content =
                                   Strip(SubSeq(c.content, Len(q) + 1,
                                                Len(c.content)))]_vars

\* a direct text was dispatched with its prefix cut and the rest stripped
C24_Witness ==
    /\ pc = "handled"
    /\ ~delivered.is_group
    /\ delivered.content = <<"a", "NL", "<", "NL">>
    /\ config.single_chat_prefix = <<(<<"<">>), (<<"a">>)>>
    /\ Len(produced) = 1
    /\ produced[1].content = <<"<">>

\* a trigger of handle_group holds for the normalized message c
GroupTrigger(c, cfg) ==
    \/ PrefixStarts(cfg.group_chat_prefix, c.content)
    \/ \E i \in 1..Len(cfg.group_chat_keyword) :
          /\ cfg.group_chat_keyword[i] # <<>>
          /\ Contains(c.content, cfg.group_chat_keyword[i])
    \/ InList(c.at_list, BotWxid)
    \/ ContainsAtName(c.content, BotName)
    \/ (c.self_display_name # <<>>
        /\ ContainsAtName(c.content, c.self_display_name))

\* C25: a group TEXT message is dispatched only if its content starts with a
\* non-empty group_chat_prefix, or contains a non-empty group_chat_keyword,
\* or the bot is mentioned (its wxid in the mention list, or "@" + its name
\* or group alias in the content)
C25_GroupTrigger ==
    [][(Delivery /\ delivered'.is_group /\ Dispatched) =>
          \E c \in {_process_message(delivered', rooms_file)} :
              c.ctype = "TEXT" => GroupTrigger(c, config)]_vars

\* a group text was dispatched on a mention of the bot in its mention list
C25_Witness ==
    /\ pc = "handled"
    /\ delivered.is_group
    /\ cmsg.ctype = "TEXT"
    /\ config.group_chat_prefix = <<>>
    /\ cmsg.at_list = <<BotWxid>>
    /\ Len(produced) = 1

\* the name tmp/wx849_rooms.json holds for the group, <<>> if none
CachedName(id, rooms) ==
    IF \E e \in rooms : e.id = id /\ e.nickName # <<>>
    THEN (CHOOSE e \in rooms : e.id = id /\ e.nickName # <<>>).nickName
    ELSE <<>>

\* C26: without "ALL_GROUP" in group_name_white_list a group message is
\* dispatched only if the group's cached name or the group id is in the list;
\* with "ALL_GROUP" the whitelist drops nothing: a message that is not voice
\* and passes the trigger filter is dispatched
C26_WhiteList ==
    [][(Delivery /\ delivered'.is_group) =>
          \E c \in {_process_message(delivered', rooms_file)} :
             /\ (<<"ALL_GROUP">> \notin config.group_name_white_list
                 /\ Dispatched) =>
                    \/ CachedName(c.from_user_id, rooms_file)
                          \in config.group_name_white_list
                    \/ c.from_user_id \in config.group_name_white_list
             /\ (<<"ALL_GROUP">> \in config.group_name_white_list
                 /\ pc' = "handled" /\ c.ctype # "VOICE"
                 /\ GroupFilter(c, config)[1]) => Dispatched]_vars

\* C26 for the messages that carry a group id
C26_KnownGroup ==
    [][(Delivery /\ delivered'.is_group /\ delivered'.from_user_id # <<>>) =>
          \E c \in {_process_message(delivered', rooms_file)} :
             /\ (<<"ALL_GROUP">> \notin config.group_name_white_list
                 /\ Dispatched) =>
                    \/ CachedName(c.from_user_id, rooms_file)
                          \in config.group_name_white_list
                    \/ c.from_user_id \in config.group_name_white_list
             /\ (<<"ALL_GROUP">> \in config.group_name_white_list
                 /\ pc' = "handled" /\ c.ctype # "VOICE"
                 /\ GroupFilter(c, config)[1]) => Dispatched]_vars

\* a group message without origin id was dispatched past a whitelist
C26_NoGroupId ==
    /\ pc = "handled"
    /\ delivered.is_group
    /\ delivered.from_user_id = <<>>
    /\ config.group_name_white_list = {<<"u9">>}
    /\ Len(produced) = 1

----------------------------------------------------------------------------
(* startup: _initialize_bot and _message_listener, run by startup_task *)

MaxBatch == 2   \* messages one get_new_message returns

\* time_out -= 3, login_timeout -= 3
ElapseSlow(t) == t - PollInterval + 1

\* lines 288-289, 426-427, 516-517: time_out -= 2, login_timeout -= 2
Elapse(t) == t - PollInterval

\* lines 255-293 without the return at 291-293
AfterConnectNoGate(connected, t) ==
    IF connected \/ t <= 0 THEN "saved" ELSE "connect"

\* lines 255-293: where _initialize_bot goes after a reachability poll
AfterConnect(connected, t) ==
    IF connected THEN "saved"
    ELSE IF t > 0 THEN "connect"
    ELSE "returned"

\* startup_task starting the listener whatever _initialize_bot returned
ListenerStartsAlways(result) == TRUE

\* line 602: if login_success
ListenerStarts(result) == result = "True"

\* the for loop of lines 550-580 with the try around the loop
AfterEntryAbort(outcome, idx, batch) ==
    IF outcome = "raised" THEN Len(batch) + 1 ELSE idx + 1

\* lines 550-580: the index of the next message after one was handled
AfterEntry(outcome, idx, batch) == idx + 1

\* the task after a call of backend operation op
Call(t, op) == [t EXCEPT !.called = @ \cup {op}]

\* the positions of the task inside _initialize_bot and inside the listener
BootPcs == {"connect", "saved", "twice", "profile", "awaken", "awaken_poll",
            "qr", "qr_poll"}
ListenerPcs == {"poll", "batch", "sleep"}

InitStartup ==
    /\ NoDelivery
    /\ config = DefaultConfig
    /\ chan = NewChannel
    /\ task \in {NewTask(<<>>), NewTask(BotWxid)}
    /\ sending = NoSending
    /\ backend = <<>>
    /\ threads = NoThreads

\* lines 591-617 and 183-254: startup starts the thread, startup_task enters
\* _initialize_bot, which builds the client
Startup ==
    /\ task.pc = "start"
    /\ task' = [task EXCEPT !.pc = "connect"]
    /\ UNCHANGED <<chan, msgVars, sendVars, threads>>

\* lines 255-293: one iteration of the reachability loop.  probe is what the
\* iteration finds: is_running() true; is_running() raising; an HTTP answer
\* to one of the GETs; or neither (the import at 264 is reached in the last
\* two cases only)
ConnectPoll ==
    /\ task.pc = "connect"
    /\ \E probe \in {"is_running", "raised", "http", "none"} :
       \E connected \in {probe \in {"is_running", "http"}} :
       \E t \in {IF connected THEN task.time_out ELSE Elapse(task.time_out)} :
          task' = [Call(task, "is_running") EXCEPT
                      !.polls = @ + 1,
                      !.aiohttp = @ \/ probe \in {"http", "none"},
                      !.is_connected = connected,
                      !.time_out = t,
                      !.pc = AfterConnect(connected, t),
                      !.result = IF AfterConnect(connected, t) = "returned"
                                 THEN "False" ELSE @]
    /\ UNCHANGED <<chan, msgVars, sendVars, threads>>

\* lines 296-310, 443-448: the saved wxid and get_cached_info
SavedSession ==
    /\ task.pc = "saved"
    /\ IF task.saved_wxid = <<>>
       THEN task' = [task EXCEPT !.pc = "qr", !.saved_path = "no_wxid"]
       ELSE \E info \in {"info", "none", "raised"} :
               task' = [Call(task, "get_cached_info") EXCEPT
                           !.pc = IF info = "info" THEN "twice" ELSE "qr",
                           !.saved_path = IF info = "info" THEN @
                                          ELSE IF info = "none" THEN "no_cache"
                                          ELSE "error"]
    /\ UNCHANGED <<chan, msgVars, sendVars, threads>>

\* lines 311-316, 333-334: twice_login
TwiceLogin ==
    /\ task.pc = "twice"
    /\ \E r \in {"ok", "failed", "raised"} :
          task' = [Call(task, "twice_login") EXCEPT
                      !.twice = r,
                      !.pc = IF r = "ok" THEN "profile"
                             ELSE IF r = "failed" THEN "awaken" ELSE "qr",
                      !.saved_path = IF r = "raised" THEN "error" ELSE @]
    /\ UNCHANGED <<msgVars, sendVars, chan, threads>>

\* lines 317-332: get_profile after a successful twice_login.  profile is a
\* dict with user info; a dict whose userInfo is not a mapping (the test at
\* 324 raises after 322); no dict; or the call raises
GetProfile ==
    /\ task.pc = "profile"
    /\ \E profile \in {"dict", "bad_info", "none", "raised"} :
          /\ task' = [Call(task, "get_profile") EXCEPT
                         !.pc = IF profile = "dict" THEN "returned" ELSE "qr",
                         !.result = IF profile = "dict" THEN "True" ELSE @,
                         !.saved_path = IF profile = "dict" THEN "logged_in"
                                        ELSE IF profile = "none" THEN "no_profile"
                                        ELSE "error"]
          /\ chan' = IF profile = "dict"
                     THEN [chan EXCEPT !.wxid = task.saved_wxid,
                                       !.name = BotName,
                                       !.user_id = task.saved_wxid,
                                       !.is_logged_in = TRUE]
                     ELSE IF profile = "bad_info"
                     THEN [chan EXCEPT !.wxid = task.saved_wxid]
                     ELSE chan
    /\ UNCHANGED <<msgVars, sendVars, threads>>

\* lines 335-390, 431-442: the awaken request.  aiohttp is a local name of
\* _initialize_bot bound only by the import at 264: when it is unbound line
\* 338 raises and no request is sent
Awaken ==
    /\ task.pc = "awaken"
    /\ IF ~task.aiohttp
       THEN task' = [task EXCEPT !.pc = "qr", !.saved_path = "error"]
       ELSE \E resp \in {"uuid", "no_uuid", "refused", "raised"} :
               task' = [Call(task, "awaken") EXCEPT
                           !.pc = IF resp = "uuid" THEN "awaken_poll" ELSE "qr",
                           !.login_timeout = LoginTimeout,
                           !.saved_path = IF resp = "uuid" THEN @
                                          ELSE "awaken_failed"]
    /\ UNCHANGED <<chan, msgVars, sendVars, threads>>

\* the user name the login result carries, None when it has none
UserNames == {BotWxid, None}

\* the outcomes of check_login_uuid: login_success with account data
\* (acctSectResp) in the result; the same with the saving of the
\* configuration raising (408-415, 497-504); login_success with a result
\* that has no acctSectResp; and no login yet or the call raising
LoginChecks == {"login", "save_raised", "no_acct", "waiting"}

\* lines 393-430: one iteration of the awaken loop
AwakenPoll ==
    /\ task.pc = "awaken_poll"
    /\ \E check \in LoginChecks, userName \in UserNames :
       \E wxid \in {IF userName = None THEN task.saved_wxid ELSE userName} :
       \E t \in {Elapse(task.login_timeout)} :
          /\ check \in {"waiting", "no_acct"} => userName = None
          /\ task' = [Call(task, "check_login_uuid") EXCEPT
                         !.check = check,
                         !.awaken_polls = @ + 1,
                         !.login_timeout = IF check = "login" THEN @ ELSE t,
                         !.pc = IF check = "login" THEN "returned"
                                ELSE IF t > 0 THEN "awaken_poll" ELSE "qr",
                         !.result = IF check = "login" THEN "True" ELSE @,
                         !.saved_path = IF check = "login" THEN "logged_in"
                                        ELSE IF t > 0 THEN @ ELSE "timeout"]
          /\ chan' = IF check \in {"waiting", "no_acct"} THEN chan
                     ELSE [chan EXCEPT !.wxid = wxid, !.name = BotName,
                                       !.user_id = wxid,
                                       !.is_logged_in = @ \/ check = "login"]
    /\ UNCHANGED <<msgVars, sendVars, threads>>

\* lines 454-481: device name and id, then get_qr_code, which is outside
\* every try: when it raises, the exception leaves _initialize_bot and
\* startup_task
QrRequest ==
    /\ task.pc = "qr"
    /\ \E qr \in {"code", "raised"} :
          task' = [Call(task, "get_qr_code") EXCEPT
                      !.check = "none",
                      !.pc = IF qr = "code" THEN "qr_poll" ELSE "raised",
                      !.result = IF qr = "code" THEN @ ELSE "raised",
                      !.login_timeout = LoginTimeout]
    /\ UNCHANGED <<chan, msgVars, sendVars, threads>>

\* lines 482-518: one iteration of the QR loop, as in the awaken loop; a
\* missing userName gives wxid "" (line 492); after the loop the function
\* ends without a return statement
QrPoll ==
    /\ task.pc = "qr_poll"
    /\ \E check \in LoginChecks, userName \in UserNames :
       \E wxid \in {IF userName = None THEN <<>> ELSE userName} :
       \E t \in {Elapse(task.login_timeout)} :
          /\ check \in {"waiting", "no_acct"} => userName = None
          /\ task' = [Call(task, "check_login_uuid") EXCEPT
                         !.check = check,
                         !.qr_polls = @ + 1,
                         !.login_timeout = IF check = "login" THEN @ ELSE t,
                         !.pc = IF check = "login" \/ t <= 0 THEN "returned"
                                ELSE "qr_poll",
                         !.result = IF check = "login" THEN "True"
                                    ELSE IF t <= 0 THEN "None" ELSE @]
          /\ chan' = IF check \in {"waiting", "no_acct"} THEN chan
                     ELSE [chan EXCEPT !.wxid = wxid, !.name = BotName,
                                       !.user_id = wxid,
                                       !.is_logged_in = @ \/ check = "login"]
    /\ UNCHANGED <<msgVars, sendVars, threads>>

\* lines 600-608: startup_task after _initialize_bot returned; the locals of
\* _initialize_bot are gone
StartListener ==
    /\ task.pc = "returned"
    /\ IF ListenerStarts(task.result)
       THEN /\ chan' = [chan EXCEPT !.is_running = TRUE]
            /\ task' = [NewTask(task.saved_wxid) EXCEPT
                           !.pc = "poll", !.result = task.result,
                           !.is_connected = task.is_connected]
       ELSE /\ task' = [task EXCEPT !.pc = "failed"]
            /\ UNCHANGED chan
    /\ UNCHANGED <<msgVars, sendVars, threads>>

\* the raw events get_new_message returns: one the message object cannot be
\* built from (line 563 raises), a direct message, a group message
BatchEntries == {"broken", "single", "group"}

Batches == UNION {[1..k -> BatchEntries] : k \in 1..MaxBatch}

\* the number of entries of b that reach a handler
RECURSIVE Deliverable(_)
Deliverable(b) ==
    IF b = <<>> THEN 0
    ELSE (IF Head(b) = "broken" THEN 0 ELSE 1) + Deliverable(Tail(b))

\* lines 525-547, 581-589: while self.is_running, one get_new_message.  It
\* raises; returns nothing; returns something the for loop cannot iterate
\* (caught at 584); or returns a batch
ListenerPoll ==
    /\ task.pc = "poll"
    /\ chan.is_running
    /\ \/ \E fetch \in {"raised", "empty", "bad"} :
             task' = [Call(task, "get_new_message") EXCEPT
                         !.fetch = fetch, !.batch = <<>>, !.idx = 1,
                         !.done = <<>>, !.pc = "sleep",
                         !.wait = IF fetch = "empty" THEN 1 ELSE 5]
       \/ \E b \in Batches :
             /\ handled + Deliverable(b) <= MaxDeliveries
             /\ task' = [Call(task, "get_new_message") EXCEPT
                            !.fetch = "batch", !.batch = b, !.idx = 1,
                            !.done = <<>>, !.pc = "batch"]
    /\ UNCHANGED <<chan, msgVars, sendVars, threads>>

\* the task after the message at idx was handled with the given outcome:
\* the for loop goes on, or ends and line 581 sleeps one second
Handled(outcome) ==
    LET next == AfterEntry(outcome, task.idx, task.batch)
    IN [task EXCEPT !.done = Append(@, outcome),
                    !.idx = next,
                    !.pc = IF next > Len(task.batch) THEN "sleep" ELSE "batch",
                    !.wait = IF next > Len(task.batch) THEN 1 ELSE @]

\* lines 550-580: the body of the for loop for the message at idx
ListenerHandle ==
    /\ task.pc = "batch"
    /\ task.idx <= Len(task.batch)
    /\ \/ /\ task.batch[task.idx] = "broken"
          /\ task' = Handled("raised")
          /\ UNCHANGED msgVars
       \/ /\ task.batch[task.idx] = "single"
          /\ task' = Handled("single")
          /\ \E m \in {NewMessage(PlainMsg, <<"m1">>, now, "i1", <<"a">>,
                                  UserId, FALSE, <<>>)} :
                Checked(m, handle_single(m, rooms_file, config))
       \/ /\ task.batch[task.idx] = "group"
          /\ task' = Handled("group")
          /\ \E m \in {NewMessage(PlainMsg, <<"m2">>, now, "i1",
                                  <<"a", ":", "NL", "@Bot">>, GroupId, TRUE,
                                  <<>>)} :
                Checked(m, handle_group(m, rooms_file, config))
    /\ UNCHANGED <<chan, sendVars, threads>>

\* lines 546, 581, 589: asyncio.sleep(wait) returns and the loop tests
\* self.is_running again
ListenerWake ==
    /\ task.pc = "sleep"
    /\ task' = [task EXCEPT !.pc = "poll"]
    /\ UNCHANGED <<chan, msgVars, sendVars, threads>>

NextStartup ==
    \/ Startup \/ ConnectPoll \/ SavedSession \/ TwiceLogin \/ GetProfile
    \/ Awaken \/ AwakenPoll \/ QrRequest \/ QrPoll \/ StartListener
    \/ ListenerPoll \/ ListenerHandle \/ ListenerWake

\* startup_task is the only coroutine of its event loop and the loop runs in
\* a thread of its own: whenever the task can take a step it takes one
SpecStartup == InitStartup /\ [][NextStartup]_vars /\ WF_vars(NextStartup)

----------------------------------------------------------------------------
(* Properties of startup, checked under SpecStartup *)

\* C27: an exception while handling one message of a fetched batch does not
\* keep the remaining messages of the batch from being handled, and an
\* exception from get_new_message does not end the loop: while is_running the
\* listener always gets to poll again, after a wait of 5 s on error and of
\* 1 s otherwise
C27_ListenerKeepsPolling ==
    /\ [](task.pc = "sleep" =>
             /\ task.fetch = "batch" => Len(task.done) = Len(task.batch)
             /\ task.wait = IF task.fetch \in {"raised", "bad"} THEN 5 ELSE 1)
    /\ [](chan.is_running => (<>(task.pc = "sleep") /\ <>(task.pc = "poll")))

\* the first message of a batch raised and the second was still dispatched
C27_Witness ==
    /\ task.pc = "sleep"
    /\ task.done = <<"raised", "single">>
    /\ pc = "handled"
    /\ Len(produced) = 1

\* the backend operations that log in
LoginCalls == {"get_cached_info", "twice_login", "get_profile", "awaken",
               "check_login_uuid", "get_qr_code"}

\* the ways the saved-session path ends without a login
NotLoggedInPaths == {"no_wxid", "no_cache", "no_profile", "awaken_failed",
                     "timeout", "error"}

\* C28: no login step runs before the backend was confirmed reachable; awaken
\* login is attempted only after twice_login was called and reported failure;
\* a QR code is requested only when the channel is still not logged in after
\* the saved-session path (skipped, failed, timed out or errored)
C28_LoginOrdering ==
    /\ (task.called \cap LoginCalls # {} \/ task.pc \in BootPcs \ {"connect"})
          => task.is_connected
    /\ ("awaken" \in task.called \/ task.pc \in {"awaken", "awaken_poll"})
          => ("twice_login" \in task.called /\ task.twice = "failed")
    /\ task.pc = "qr" => ~chan.is_logged_in
    /\ ("get_qr_code" \in task.called \/ task.pc = "qr")
          => task.saved_path \in NotLoggedInPaths

\* the QR code was requested after the awaken login had timed out
C28_Witness ==
    /\ task.pc = "qr_poll"
    /\ task.saved_path = "timeout"
    /\ {"twice_login", "awaken", "get_qr_code"} \subseteq task.called
    /\ task.awaken_polls = 60

\* C29: _initialize_bot terminates, after at most 15 reachability polls, 60
\* awaken polls and 60 QR polls; when the backend stays unreachable it
\* returns False without any login step, and when the QR login times out it
\* returns a value that is not True with is_logged_in still false
C29_InitializeTerminates ==
    /\ [](/\ task.polls <= 15
          /\ task.awaken_polls <= 60
          /\ task.qr_polls <= 60
          /\ (task.pc \notin BootPcs /\ task.polls = 15 /\ ~task.is_connected)
                => (task.result = "False" /\ task.called \cap LoginCalls = {})
          /\ (task.pc \notin BootPcs /\ task.qr_polls = 60
              /\ task.login_timeout <= 0)
                => (task.result # "True" /\ ~chan.is_logged_in))
    /\ <>(task.pc \notin BootPcs \cup {"start"})

\* the QR login timed out after the awaken login had timed out
C29_Witness ==
    /\ task.pc = "failed"
    /\ task.result = "None"
    /\ task.awaken_polls = 60
    /\ task.qr_polls = 60
    /\ ~chan.is_logged_in

LoginReported == task.check \in {"login", "save_raised", "no_acct"}

\* C31: when check_login_uuid reports login success during the QR or the
\* awaken polling, _initialize_bot returns True and is_logged_in becomes
\* true, whatever the login result looks like (also without acctSectResp)
C31_SuccessLogsIn ==
    LoginReported => (task.result = "True" /\ chan.is_logged_in)

\* C31 for the login results that carry account data and can be saved
C31_WithAccount ==
    task.check = "login" => (task.result = "True" /\ chan.is_logged_in)

\* success was reported without account data and the QR polling goes on
C31_NoAccount ==
    /\ task.pc = "qr_poll"
    /\ task.check = "no_acct"
    /\ task.login_timeout > 0
    /\ ~chan.is_logged_in

----------------------------------------------------------------------------
(* Properties of the dispatched contexts *)

\* C32: the context of a group message has isgroup true and receiver and
\* session_id equal to the group id (from_user_id), whoever the sender is;
\* the context of a direct message has isgroup false and receiver and
\* session_id equal to the sender id
C32_ContextRouting ==
    [][(Delivery /\ Dispatched) =>
          IF delivered'.is_group
          THEN /\ Queued.isgroup
               /\ Queued.receiver = cmsg'.from_user_id
               /\ Queued.session_id = cmsg'.from_user_id
               /\ Queued.group_id = cmsg'.from_user_id
          ELSE /\ ~Queued.isgroup
               /\ Queued.receiver = cmsg'.sender_wxid
               /\ Queued.session_id = cmsg'.sender_wxid]_vars

\* a group message was dispatched into the session of its group, not of its
\* sender
C32_Witness ==
    /\ pc = "handled"
    /\ delivered.is_group
    /\ cmsg.sender_wxid \notin {<<>>, GroupId}
    /\ Len(produced) = 1
    /\ produced[1].from_user_id = cmsg.sender_wxid
    /\ produced[1].isgroup
    /\ produced[1].session_id = GroupId
    /\ produced[1].receiver = GroupId

\* C33: the isgroup value of every dispatched context equals the group flag
\* of the normalized message: a message that normalization flags as group
\* is never dispatched through handle_single with isgroup false, nor a
\* direct one through handle_group
C33_GroupFlagAgrees ==
    [][(Delivery /\ Dispatched) => Queued.isgroup = cmsg'.is_group]_vars

\* C33 for the messages the listener hands to handle_group
C33_GroupPath ==
    [][(Delivery /\ Dispatched /\ delivered'.is_group) =>
          (Queued.isgroup /\ cmsg'.is_group)]_vars

\* a text from a chatroom went through handle_single: the record is flagged
\* as group, the context as direct
C33_DirectPathGroup ==
    /\ pc = "handled"
    /\ ~delivered.is_group
    /\ delivered.from_user_id = GroupId
    /\ cmsg.is_group
    /\ Len(produced) = 1
    /\ ~produced[1].isgroup


----------------------------------------------------------------------------
(* the sender of system messages *)

\* C34: at the end of _process_message a PAT record still has the patter as
\* sender_wxid and actual_user_id, and a plain SYSTEM record still has the
\* system-sender marker in both, in group chats and in direct chats.
C34_SystemSenderKept ==
    (pc = "processed" /\ cmsg.ctype \in {"PAT", "SYSTEM"}) =>
        IF cmsg.ctype = "PAT"
        THEN /\ cmsg.sender_wxid = cmsg.pat_info.patter
             /\ cmsg.actual_user_id = cmsg.pat_info.patter
        ELSE /\ cmsg.sender_wxid = SystemSender
             /\ cmsg.actual_user_id = SystemSender

\* a pat in a direct chat whose sender became the chat's own id
C34_DirectPat ==
    /\ pc = "processed"
    /\ cmsg.ctype = "PAT"
    /\ ~cmsg.is_group
    /\ cmsg.pat_info.patter # cmsg.from_user_id
    /\ cmsg.sender_wxid = cmsg.from_user_id

\* a plain system message of a group whose sender became the default name
C34_GroupSystem ==
    /\ pc = "processed"
    /\ cmsg.ctype = "SYSTEM"
    /\ IsGroupMsg(cmsg)
    /\ cmsg.sender_wxid = UnknownUser(cmsg)


----------------------------------------------------------------------------
(* the sender prefix of group texts *)

\* the raw content split once at the first ":\n"
FirstSplit == SplitSender(delivered.content, <<":", "NL">>)

\* C35: a group text whose raw content is "<sender>:\n<body>" ends with the
\* content exactly <body>, whatever the body holds: the body is not split a
\* second time, so no part of it is taken for the sender id.
C35_OnePrefixStripped ==
    (/\ pc = "processed"
     /\ cmsg.ctype = "TEXT"
     /\ IsGroupMsg(delivered)
     /\ FirstSplit.ok) =>
        cmsg.content = FirstSplit.body

\* a body holding a colon lost its part before the colon to the sender id
C35_SplitTwice ==
    /\ pc = "processed"
    /\ cmsg.ctype = "TEXT"
    /\ delivered.content = <<"a", ":", "NL", "a", ":", "a">>
    /\ cmsg.content = <<"a">>
    /\ cmsg.sender_wxid = <<"a">>


----------------------------------------------------------------------------
(* _get_group_name and _get_group_member_details *)

\* cache_expiry
CacheExpiry == 86400

\* an entry of wx849_rooms.json.  members is the list of the members' UserName.
Room(g, nick, owner, members, t) ==
    [id |-> g, nickName |-> nick, chatRoomOwner |-> owner,
     members |-> members, last_update |-> t]

\* group_id in chatrooms_info, chatrooms_info[group_id]
HasRoom(info, g) == \E e \in info : e.id = g
RoomOf(info, g) == CHOOSE e \in info : e.id = g

\* chatrooms_info[group_id] = e
PutRoom(info, e) == {x \in info : x.id # e.id} \cup {e}

\* current_time - chatrooms_info[group_id]["last_update"] < cache_expiry
Fresh(e, t) == t - e.last_update < CacheExpiry

\* the file when the first thread starts: missing, a named group without
\* members, a complete entry, and a complete entry older than a day
RoomInfos ==
    {{},
     {Room(<<"g@chatroom">>, <<"room">>, <<>>, <<>>, CacheExpiry)},
     {Room(<<"g@chatroom">>, <<"room">>, <<"u1">>, <<(<<"u1">>)>>, CacheExpiry)},
     {Room(<<"g@chatroom">>, <<"room">>, <<"u1">>, <<(<<"u1">>)>>, 0)}}

\* what GetChatRoomInfo gives: the call raises, the result is no dict, or a
\* dict.  nick is the name find_value reaches (NickName, ChatRoomName,
\* nickname, name, DisplayName), late a name only the second list of fields
\* holds (chatroomname, displayname), owner the ChatRoomOwner.
InfoResults ==
    {[kind |-> "raised", nick |-> <<>>, late |-> <<>>, owner |-> <<>>],
     [kind |-> "invalid", nick |-> <<>>, late |-> <<>>, owner |-> <<>>],
     [kind |-> "dict", nick |-> <<"room">>, late |-> <<>>, owner |-> <<>>],
     [kind |-> "dict", nick |-> <<"room">>, late |-> <<>>, owner |-> <<"u1">>],
     [kind |-> "dict", nick |-> <<>>, late |-> <<"late">>, owner |-> <<>>],
     [kind |-> "dict", nick |-> <<>>, late |-> <<>>, owner |-> <<>>]}

\* what GetChatRoomMemberDetail gives: no usable response, or the member list
\* and the UserName of the member flagged 2049, if any
DetailResults ==
    {[kind |-> "failed", members |-> <<>>, owner |-> <<>>],
     [kind |-> "list", members |-> <<>>, owner |-> <<>>],
     [kind |-> "list", members |-> <<(<<"u1">>)>>, owner |-> <<>>],
     [kind |-> "list", members |-> <<(<<"u1">>)>>, owner |-> <<"u1">>]}

\* lines 2188-2198: the group id stands in for the name
Fallback(th) ==
    [th EXCEPT !.ret = th.group_id, !.pc = "members"]

\* lines 2112-2128: the entry _get_group_name writes
NamedRoom(info, g, r, t) ==
    IF HasRoom(info, g)
    THEN [RoomOf(info, g) EXCEPT
              !.nickName = IF r.nick # <<>> THEN r.nick ELSE @,
              !.chatRoomOwner = IF r.owner # <<>> THEN r.owner ELSE @,
              !.last_update = t]
    ELSE Room(g, IF r.nick # <<>> THEN r.nick ELSE g, r.owner, <<>>, t)

\* lines 2137-2198: the name _get_group_name caches and returns after the save
NameOf(g, r) ==
    IF r.nick # <<>> THEN r.nick
    ELSE IF r.late # <<>> THEN r.late
    ELSE g

\* lines 1857-1903: the entry _get_group_member_details writes
DetailedRoom(info, g, d, t) ==
    Let(IF HasRoom(info, g) THEN RoomOf(info, g)
        ELSE Room(g, g, <<>>, <<>>, t), LAMBDA e :
        [e EXCEPT !.members = d.members,
                  !.last_update = t,
                  !.chatRoomOwner = IF d.owner # <<>> THEN d.owner ELSE @])

InitRooms ==
    /\ cmsg = NewMessage(PlainMsg, <<>>, 0, "None", <<>>, <<>>, FALSE, <<>>)
    /\ delivered = cmsg
    /\ pc = "listen"
    /\ now = CacheExpiry
    /\ received_msgs = {}
    /\ assigned = {}
    /\ rooms_file \in RoomInfos
    /\ config = DefaultConfig
    /\ produced = <<>>
    /\ handled = 0
    /\ chan = RunningChannel
    /\ task = ListeningTask
    /\ sending = NoSending
    /\ backend = <<>>
    /\ threads = NoThreads

restVars == <<cmsg, delivered, pc, now, received_msgs, assigned, config,
              produced, handled, task, sending, backend>>

\* _compose_context, lines 2231-2252: a thread runs _get_group_name for the
\* group of the message
StartThread(t) ==
    /\ threads[t].pc = "idle"
    /\ \A u \in 1..(t - 1) : threads[u].pc # "idle"
    /\ \E g \in RoomIds :
          threads' = [threads EXCEPT ![t] = [@ EXCEPT !.pc = "name",
                                                       !.group_id = g]]
    /\ UNCHANGED <<rooms_file, chan, restVars>>

\* _get_group_name up to its await, lines 1922-2038
GetGroupName(t) ==
    /\ threads[t].pc = "name"
    /\ \E th \in {threads[t]}, names \in {chan.group_name_cache} :
        \E g \in {th.group_id} :
          IF names[g] # None
          THEN \* lines 1929-1963
               /\ threads' = [threads EXCEPT ![t] =
                     [th EXCEPT !.ret = names[g],
                                !.pc = IF /\ HasRoom(rooms_file, g)
                                          /\ Fresh(RoomOf(rooms_file, g), now)
                                          /\ RoomOf(rooms_file, g).members # <<>>
                                       THEN "done" ELSE "members"]]
               /\ UNCHANGED chan
          ELSE IF /\ HasRoom(rooms_file, g)
                  /\ RoomOf(rooms_file, g).nickName # <<>>
                  /\ RoomOf(rooms_file, g).nickName # g
                  /\ Fresh(RoomOf(rooms_file, g), now)
          THEN \* lines 1976-2008
               /\ chan' = [chan EXCEPT !.group_name_cache[g] =
                                           RoomOf(rooms_file, g).nickName]
               /\ threads' = [threads EXCEPT ![t] =
                     [th EXCEPT !.ret = RoomOf(rooms_file, g).nickName,
                                !.pc = IF RoomOf(rooms_file, g).members # <<>>
                                       THEN "done" ELSE "members"]]
          ELSE \* lines 2012-2038
               /\ threads' = [threads EXCEPT ![t] = [th EXCEPT !.pc = "info_wait"]]
               /\ UNCHANGED chan
    /\ UNCHANGED <<rooms_file, restVars>>

\* GetChatRoomInfo answers, lines 2038-2047 and 2180-2198
InfoArrives(t) ==
    /\ threads[t].pc = "info_wait"
    /\ \E r \in InfoResults, th \in {threads[t]} :
          IF r.kind # "dict"
          THEN /\ threads' = [threads EXCEPT ![t] = Fallback(th)]
               /\ chan' = [chan EXCEPT !.group_name_cache[th.group_id] = th.group_id]
          ELSE /\ threads' = [threads EXCEPT ![t] =
                     [th EXCEPT !.chatrooms_info = rooms_file,
                                !.group_info = <<r>>,
                                !.pc = "info_save"]]
               /\ UNCHANGED chan
    /\ UNCHANGED <<rooms_file, restVars>>

\* _get_group_name from the entry it builds to its return, lines 2053-2198
InfoSave(t) ==
    /\ threads[t].pc = "info_save"
    /\ \E th \in {threads[t]} :
        \E g \in {th.group_id}, r \in {th.group_info[1]} :
          /\ rooms_file' = PutRoom(th.chatrooms_info,
                                   NamedRoom(th.chatrooms_info, g, r, now))
          /\ chan' = [chan EXCEPT !.group_name_cache[g] = NameOf(g, r)]
          /\ threads' = [threads EXCEPT ![t] =
                [th EXCEPT !.chatrooms_info = rooms_file',
                           !.ret = NameOf(g, r),
                           !.pc = "members"]]
    /\ UNCHANGED restVars

\* _get_group_member_details up to its await, lines 1775-1837
GetMembers(t) ==
    /\ threads[t].pc = "members"
    /\ \E th \in {threads[t]} :
        \E g \in {th.group_id} :
          threads' = [threads EXCEPT ![t] =
              [th EXCEPT !.chatrooms_info = rooms_file,
                         !.pc = IF /\ HasRoom(rooms_file, g)
                                   /\ RoomOf(rooms_file, g).members # <<>>
                                   /\ Fresh(RoomOf(rooms_file, g), now)
                                THEN "done" ELSE "detail_wait"]]
    /\ UNCHANGED <<rooms_file, chan, restVars>>

\* GetChatRoomMemberDetail answers, lines 1837-1912
DetailArrives(t) ==
    /\ threads[t].pc = "detail_wait"
    /\ \E d \in DetailResults, th \in {threads[t]} :
          IF d.kind = "failed"
          THEN /\ threads' = [threads EXCEPT ![t] = [th EXCEPT !.pc = "done"]]
               /\ UNCHANGED rooms_file
          ELSE /\ rooms_file' = PutRoom(th.chatrooms_info,
                       DetailedRoom(th.chatrooms_info, th.group_id, d, now))
               /\ threads' = [threads EXCEPT ![t] =
                     [th EXCEPT !.chatrooms_info = rooms_file',
                                !.response = <<d>>,
                                !.pc = "done"]]
    /\ UNCHANGED <<chan, restVars>>

NextRooms ==
    \E t \in 1..MaxThreads :
        \/ StartThread(t)
        \/ GetGroupName(t)
        \/ InfoArrives(t)
        \/ InfoSave(t)
        \/ GetMembers(t)
        \/ DetailArrives(t)

SpecRooms == InitRooms /\ [][NextRooms]_vars


----------------------------------------------------------------------------
(* the group name and its cache *)

\* thread t leaves the first part of _get_group_name in this step
Called(t) == threads[t].pc = "name" /\ threads'[t].pc # "name"

\* every name _get_group_name returned is non-empty
NameReturned ==
    \A t \in 1..MaxThreads : threads[t].ret # None => threads[t].ret # <<>>

\* a name in group_name_cache stays as it is
NameKept ==
    \A g \in RoomIds :
        chan.group_name_cache[g] # None =>
            chan'.group_name_cache[g] = chan.group_name_cache[g]

\* a call that finds a name in group_name_cache returns it and does not call
\* GetChatRoomInfo
NameFromCache ==
    \A t \in 1..MaxThreads :
        (Called(t) /\ chan.group_name_cache[threads[t].group_id] # None) =>
            /\ threads'[t].ret = chan.group_name_cache[threads[t].group_id]
            /\ threads'[t].pc # "info_wait"

\* C36: _get_group_name returns a non-empty name whatever the lookup gives,
\* and once a name (the group id of a failed lookup included) is stored in
\* group_name_cache, every later call returns that name without a call of
\* GetChatRoomInfo.
C36_NameCached == []NameReturned /\ [][NameKept /\ NameFromCache]_vars

\* the first half of C36
C36_NonEmptyName == NameReturned

\* the cache keeps the first name stored
C36_CacheKept == [][NameKept]_vars

\* a call with a cached name returns it without GetChatRoomInfo
C36_CacheHit == [][NameFromCache]_vars

\* the group id of a failed lookup was cached and a later call returned it
C36_FallbackCached ==
    /\ threads[1].pc = "done"
    /\ threads[1].ret = <<"g@chatroom">>
    /\ threads[2].pc = "done"
    /\ threads[2].group_id = <<"g@chatroom">>
    /\ threads[2].group_info = <<>>
    /\ threads[2].ret = <<"g@chatroom">>


----------------------------------------------------------------------------
(* the updates of wx849_rooms.json *)

\* thread t wrote the entry of its GetChatRoomInfo result
Saved(t) == threads[t].group_info # <<>> /\ threads[t].pc # "info_save"

\* thread t wrote the members of its GetChatRoomMemberDetail result
Detailed(t) == threads[t].response # <<>>

\* no thread is running
Quiet == \A t \in 1..MaxThreads : threads[t].pc \in {"idle", "done"}

\* the names, owners and member lists the threads wrote for group g
NamesWritten(g) ==
    {threads[t].group_info[1].nick :
        t \in {u \in 1..MaxThreads : Saved(u) /\ threads[u].group_id = g}}
OwnersWritten(g) ==
    {threads[t].group_info[1].owner :
        t \in {u \in 1..MaxThreads : Saved(u) /\ threads[u].group_id = g}}
    \cup {threads[t].response[1].owner :
        t \in {u \in 1..MaxThreads : Detailed(u) /\ threads[u].group_id = g}}
MembersWritten(g) ==
    {threads[t].response[1].members :
        t \in {u \in 1..MaxThreads : Detailed(u) /\ threads[u].group_id = g}}

\* the file holds what thread t wrote, or what another thread wrote over it
Kept(t) ==
    Let(threads[t].group_id, LAMBDA g :
        /\ Saved(t) =>
              /\ HasRoom(rooms_file, g)
              /\ threads[t].group_info[1].nick # <<>> =>
                    RoomOf(rooms_file, g).nickName \in NamesWritten(g)
              /\ threads[t].group_info[1].owner # <<>> =>
                    RoomOf(rooms_file, g).chatRoomOwner \in OwnersWritten(g)
        /\ Detailed(t) =>
              /\ HasRoom(rooms_file, g)
              /\ RoomOf(rooms_file, g).members \in MembersWritten(g)
              /\ threads[t].response[1].owner # <<>> =>
                    RoomOf(rooms_file, g).chatRoomOwner \in OwnersWritten(g))

\* C37: when the threads of _get_group_name and _get_group_member_details
\* have finished, in whatever order their steps ran, wx849_rooms.json holds
\* every update a thread completed: none was lost.
C37_NoLostUpdate == Quiet => \A t \in 1..MaxThreads : Kept(t)

\* the name thread 1 wrote for the group is gone: the entry was written again
\* from a copy loaded before
C37_NameLost ==
    /\ Quiet
    /\ threads[1].group_id = <<"g@chatroom">>
    /\ Saved(1)
    /\ threads[1].group_info[1].nick = <<"room">>
    /\ HasRoom(rooms_file, <<"g@chatroom">>)
    /\ RoomOf(rooms_file, <<"g@chatroom">>).nickName = <<"g@chatroom">>

====
